---- MODULE Spec2Model ----
(***************************************************************************)
(* Model of the causeflow client: the zod request/response schemas         *)
(* (lib/types), the generation call (lib/api), the URL query-state codec   *)
(* (lib/utils) and the App component's handlers (App.tsx).                 *)
(*                                                                         *)
(* Text is modelled as a sequence of one-character strings, so that        *)
(* length, trimming, percent-encoding and parsing are computed rather      *)
(* than assumed.  A JavaScript number is a record that distinguishes       *)
(* integers, values with a fractional part, and NaN.                       *)
(***************************************************************************)
EXTENDS Integers, Sequences, FiniteSets, TLC

VARIABLES
    requestInput,    \* candidate object handed to generateRequestSchema
    requestParsed,   \* <<>> or <<outcome of generateRequestSchema.safeParse>>
    responseInput,   \* candidate object handed to generateResponseSchema
    responseParsed,  \* <<>> or <<outcome of generateResponseSchema.safeParse>>
    urlState,        \* query state handed to encodeUrlState
    hashInput,       \* fragment handed to decodeUrlState
    encoded,         \* <<>> or <<encodeUrlState(urlState)>>
    decoded,         \* <<>> or <<decodeUrlState(hashInput)>>
    roundTrip,       \* <<>> or <<decodeUrlState of the fragment made from encoded>>
    useLocalApi,     \* USE_LOCAL_API, fixed at startup
    user,            \* AuthProvider: <<>> (null) or <<user id>>
    authLoading,     \* AuthProvider: loading
    authModalOpen,   \* App: authModalOpen
    showLandingPage, \* App: showLandingPage
    pendingPrompt,   \* App: <<>> (null) or <<QueryState>>
    state,           \* App: the QueryState
    keyClosure,      \* state and user seen by the registered keydown handler
    generateCalls,   \* generateCausalChain calls of handleGenerate awaiting the endpoint
    saveCalls,       \* saveHistory calls of handleGenerate awaiting the store
    toast,           \* the last toast shown
    dispatched,      \* number of generateCausalChain calls made so far
    lastReply,       \* <<>> or <<the endpoint reply the last handler consumed>>
    loadingMoreEvents, \* App: loadingMoreEvents
    moreCalls,       \* generateCausalChain calls of handleRequestMoreEvents awaiting the endpoint
    updateCalls,     \* updateHistory calls of handleRequestMoreEvents awaiting the store
    lastCall,        \* <<>> or <<the call a handler just resumed from, and its outcome>>
    moreInput,       \* query state and fetched steps handed to the request-more-history merge
    moreOutput,      \* the request built from moreInput and the steps that survive the merge
    files,           \* the storage bucket: the set of stored history files
    clock,           \* the time, in ticks
    nextFileId,      \* next identifier ID.unique() hands out
    updating,        \* <<>> or <<the updateHistory call in progress>>
    listed,          \* <<>> or <<the last getUserHistory call and what it returned>>
    history,         \* the items the history dropdown holds
    lastDeleted      \* <<>> or <<the item handleDeleteItem was last called for>>

requestVars == <<requestInput, requestParsed>>
responseVars == <<responseInput, responseParsed>>
codecVars == <<urlState, hashInput, encoded, decoded, roundTrip>>
appVars == <<useLocalApi, user, authLoading, authModalOpen, showLandingPage,
             pendingPrompt, state, keyClosure, generateCalls, saveCalls,
             toast, dispatched, lastReply, loadingMoreEvents, moreCalls,
             updateCalls, lastCall>>

mergeVars == <<moreInput, moreOutput>>

storeVars == <<files, clock, nextFileId>>
historyVars == <<updating, listed, history, lastDeleted>>

vars == <<requestVars, responseVars, codecVars, appVars, mergeVars, storeVars, historyVars>>

----------------------------------------------------------------------------
(* Bounds of the explored input space.                                     *)

\* largest number of whitespace characters put on either side of an event
MaxPad == 2
\* longest steps list of a candidate response
MaxSteps == 13
\* largest detail level of an initial query state
MaxLevel == 7
\* most generateCausalChain calls made in one run
MaxDispatch == 2

----------------------------------------------------------------------------
(* Text helpers.                                                           *)

Repeat(c, n) == [i \in 1..n |-> c]

DigitChars == <<"0","1","2","3","4","5","6","7","8","9">>

\* decimal digits of a natural number (Number.prototype.toString)
RECURSIVE NatToString(_)
NatToString(n) ==
    IF n < 10 THEN <<DigitChars[n + 1]>>
    ELSE NatToString(n \div 10) \o <<DigitChars[(n % 10) + 1]>>

\* the characters String.prototype.trim removes
IsWhitespace(c) == c \in {" ", "\t", "\n", "\r"}

\* String.prototype.trim
Trim(s) ==
    LET keep == {i \in 1..Len(s) : ~IsWhitespace(s[i])}
    IN  IF keep = {} THEN <<>>
        ELSE LET lo == CHOOSE i \in keep : \A j \in keep : i <= j
                 hi == CHOOSE i \in keep : \A j \in keep : j <= i
             IN  SubSeq(s, lo, hi)

----------------------------------------------------------------------------
(* JavaScript numbers: int + frac/10, or NaN.                              *)

Num(n)  == [nan |-> FALSE, int |-> n, frac |-> 0]
Half(n) == [nan |-> FALSE, int |-> n, frac |-> 5]
NaN     == [nan |-> TRUE,  int |-> 0, frac |-> 0]

IsInteger(x) == ~x.nan /\ x.frac = 0
\* x >= k and x <= k for an integer k (both false for NaN)
NumGE(x, k) == ~x.nan /\ x.int >= k
NumLE(x, k) == ~x.nan /\ (x.int < k \/ (x.int = k /\ x.frac = 0))

----------------------------------------------------------------------------
(* Untyped JSON scalars as they reach a schema.                            *)

Undef     == [t |-> "undefined", s |-> <<>>, n |-> Num(0)]
Null      == [t |-> "null",      s |-> <<>>, n |-> Num(0)]
Str(s)    == [t |-> "string",    s |-> s,    n |-> Num(0)]
Number(x) == [t |-> "number",    s |-> <<>>, n |-> x]

\* untyped JSON arrays
UndefArr == [t |-> "undefined", a |-> <<>>]
NullArr  == [t |-> "null",      a |-> <<>>]
Arr(a)   == [t |-> "array",     a |-> a]

----------------------------------------------------------------------------
(* generateRequestSchema                                                   *)

EventMin == 5
EventMax == 300
DetailMin == 1
DetailMax == 7
DetailDefault == 5

Perspectives ==
    { <<"e","c","o","n","o","m","i","c">>,
      <<"p","o","l","i","t","i","c","a","l">>,
      <<"s","o","c","i","a","l">>,
      <<"t","e","c","h","n","i","c","a","l">>,
      <<"b","a","l","a","n","c","e","d">> }

Balanced == <<"b","a","l","a","n","c","e","d">>

\* EventIssue with the lower bound taken as exclusive
EventIssue_ExclusiveMin(v) ==
    \/ v.t # "string"
    \/ Len(v.s) <= EventMin
    \/ Len(v.s) > EventMax

\* event: z.string().min(5).max(300)
EventIssue(v) ==
    \/ v.t # "string"
    \/ Len(v.s) < EventMin
    \/ Len(v.s) > EventMax

\* detailLevel: z.number().min(1).max(7).default(5)
DetailLevelIssue(v) ==
    /\ v.t # "undefined"
    /\ \/ v.t # "number"
       \/ v.n.nan
       \/ ~NumGE(v.n, DetailMin)
       \/ ~NumLE(v.n, DetailMax)

\* perspective: z.enum([...]).default('balanced')
PerspectiveIssue(v) ==
    /\ v.t # "undefined"
    /\ \/ v.t # "string"
       \/ v.s \notin Perspectives

\* generateRequestSchema.safeParse: every failing field is reported; on
\* success the value carries the supplied fields with defaults filled in.
ParseRequest(raw) ==
    LET issues == {f \in {"event", "detailLevel", "perspective"} :
                      \/ f = "event" /\ EventIssue(raw.event)
                      \/ f = "detailLevel" /\ DetailLevelIssue(raw.detailLevel)
                      \/ f = "perspective" /\ PerspectiveIssue(raw.perspective)}
        value == [event |-> raw.event.s,
                  detailLevel |-> IF raw.detailLevel.t = "undefined"
                                  THEN Num(DetailDefault) ELSE raw.detailLevel.n,
                  perspective |-> IF raw.perspective.t = "undefined"
                                  THEN Balanced ELSE raw.perspective.s]
    IN  [success |-> issues = {},
         issues  |-> issues,
         data    |-> IF issues = {} THEN <<value>> ELSE <<>>]

----------------------------------------------------------------------------
(* Candidate requests.                                                     *)

\* an event of n visible characters with a and b whitespace around it
PaddedEvent(a, n, b) == Repeat(" ", a) \o Repeat("x", n) \o Repeat(" ", b)

CoreLengths == {0, 1, EventMin - 1, EventMin, EventMin + 1,
                EventMax - 1, EventMax, EventMax + 1}

EventCandidates ==
    {Undef, Null, Number(Num(7))}
    \cup {Str(PaddedEvent(a, n, b)) : a \in 0..MaxPad, n \in CoreLengths, b \in 0..MaxPad}

DetailLevelCandidates ==
    {Undef, Null, Str(<<"5">>), Number(NaN)}
    \cup {Number(Num(n)) : n \in (DetailMin - 2)..(DetailMax + 2)}
    \cup {Number(Half(n)) : n \in 0..DetailMax}

PerspectiveCandidates ==
    {Undef, Null, Number(Num(1)), Str(<<>>), Str(<<"B","a","l","a","n","c","e","d">>),
     Str(<<"m","i","l","i","t","a","r","y">>)}
    \cup {Str(p) : p \in Perspectives}

RequestInputs ==
    [event : EventCandidates, detailLevel : DetailLevelCandidates,
     perspective : PerspectiveCandidates]

----------------------------------------------------------------------------
(* generateResponseSchema                                                  *)

StepsMin == 3
StepsMax == 12

Lower == {"a","b","c","d","e","f","g","h","i","j","k","l","m",
          "n","o","p","q","r","s","t","u","v","w","x","y","z"}
Upper == {"A","B","C","D","E","F","G","H","I","J","K","L","M",
          "N","O","P","Q","R","S","T","U","V","W","X","Y","Z"}
Digit == {"0","1","2","3","4","5","6","7","8","9"}

\* schemes whose URLs need a host
SpecialSchemes ==
    { <<"h","t","t","p">>, <<"h","t","t","p","s">>, <<"f","t","p">>,
      <<"w","s">>, <<"w","s","s">> }

\* z.string().url(): the text parses with the URL constructor and no base,
\* i.e. it has a scheme, and a non-empty host when the scheme needs one
IsUrl(s) ==
    LET colons == {i \in 1..Len(s) : s[i] = ":"}
    IN  /\ colons # {}
        /\ LET c == CHOOSE i \in colons : \A j \in colons : i <= j
                scheme == SubSeq(s, 1, c - 1)
                rest == SubSeq(s, c + 1, Len(s))
                body == {i \in 1..Len(rest) : rest[i] \notin {"/", "\\"}}
                hostEnd == {i \in 1..Len(rest) :
                               /\ \E b \in body : b < i
                               /\ rest[i] \in {"/", "\\", "?", "#"}}
            IN  /\ c > 1
                /\ s[1] \in Lower \cup Upper
                /\ \A j \in 2..(c - 1) : s[j] \in Lower \cup Upper \cup Digit \cup {"+", "-", "."}
                /\ scheme \in SpecialSchemes =>
                      /\ body # {}
                      /\ LET first == CHOOSE i \in body : \A j \in body : i <= j
                             last == IF hostEnd = {} THEN Len(rest)
                                     ELSE (CHOOSE i \in hostEnd : \A j \in hostEnd : i <= j) - 1
                         IN  /\ rest[first] \notin {"?", "#"}
                             /\ \A j \in first..last : rest[j] \notin {" ", "<", ">", "^", "|"}

IsString(v) == v.t = "string"

\* SourcesOk that stops looking after the first source
SourcesOk_FirstOnly(v) ==
    \/ v.t = "undefined"
    \/ /\ v.t = "array"
       /\ \A i \in 1..Len(v.a) :
             /\ IsString(v.a[i].title)
             /\ IsString(v.a[i].url)
             /\ i = 1 => IsUrl(v.a[i].url.s)

\* sources: z.array(z.object({title, url})).optional().default([])
SourcesOk(v) ==
    \/ v.t = "undefined"
    \/ /\ v.t = "array"
       /\ \A i \in 1..Len(v.a) :
             /\ IsString(v.a[i].title)
             /\ IsString(v.a[i].url)
             /\ IsUrl(v.a[i].url.s)

\* depends_on: z.array(z.string()).optional().default([])
DependsOnOk(v) ==
    \/ v.t = "undefined"
    \/ /\ v.t = "array"
       /\ \A i \in 1..Len(v.a) : IsString(v.a[i])

\* one element of steps
StepOk(c) ==
    /\ IsString(c.id)
    /\ IsString(c.title)
    /\ IsString(c.summary)
    /\ IsString(c.when)
    /\ IsString(c.mechanism)
    /\ c.evidence_needed.t \in {"undefined", "null", "string"}
    /\ SourcesOk(c.sources)
    /\ DependsOnOk(c.depends_on)

\* StepsOk without the upper bound on the length
StepsOk_NoMax(v) ==
    /\ v.t = "array"
    /\ Len(v.a) >= StepsMin
    /\ \A i \in 1..Len(v.a) : StepOk(v.a[i])

\* steps: z.array(...).min(3).max(12)
StepsOk(v) ==
    /\ v.t = "array"
    /\ Len(v.a) >= StepsMin
    /\ Len(v.a) <= StepsMax
    /\ \A i \in 1..Len(v.a) : StepOk(v.a[i])

\* the typed step: optional arrays default to the empty sequence
TypedStep(c) ==
    [id |-> c.id.s, title |-> c.title.s, summary |-> c.summary.s,
     when |-> c.when.s, mechanism |-> c.mechanism.s,
     evidence_needed |-> c.evidence_needed,
     sources |-> IF c.sources.t = "undefined" THEN <<>>
                 ELSE [i \in 1..Len(c.sources.a) |->
                          [title |-> c.sources.a[i].title.s, url |-> c.sources.a[i].url.s]],
     depends_on |-> IF c.depends_on.t = "undefined" THEN <<>>
                    ELSE [i \in 1..Len(c.depends_on.a) |-> c.depends_on.a[i].s]]

\* generateResponseSchema.safeParse
ParseResponse(raw) ==
    LET ok == /\ IsString(raw.event)
              /\ IsString(raw.generated_at)
              /\ IsString(raw.perspective)
              /\ StepsOk(raw.steps)
    IN  [success |-> ok,
         data |-> IF ok
                  THEN << [event |-> raw.event.s,
                           generated_at |-> raw.generated_at.s,
                           perspective |-> raw.perspective.s,
                           steps |-> [i \in 1..Len(raw.steps.a) |-> TypedStep(raw.steps.a[i])]] >>
                  ELSE <<>>]

----------------------------------------------------------------------------
(* URLSearchParams: application/x-www-form-urlencoded over printable ASCII *)

\* the printable ASCII characters, code 32 first (code 96, the grave
\* accent, is written by name)
Ascii ==
    <<" ","!","\"","#","$","%","&","'","(",")","*","+",",","-",".","/",
      "0","1","2","3","4","5","6","7","8","9",":",";","<","=",">","?",
      "@","A","B","C","D","E","F","G","H","I","J","K","L","M","N","O",
      "P","Q","R","S","T","U","V","W","X","Y","Z","[","\\","]","^","_",
      "grave","a","b","c","d","e","f","g","h","i","j","k","l","m","n","o",
      "p","q","r","s","t","u","v","w","x","y","z","{","|","}","~">>

CharCode(c) == 31 + CHOOSE i \in 1..Len(Ascii) : Ascii[i] = c

HexChars == <<"0","1","2","3","4","5","6","7","8","9","A","B","C","D","E","F">>

IsHex(c) == c \in Digit \cup {"A","B","C","D","E","F","a","b","c","d","e","f"}

HexValue(c) ==
    IF c \in Digit THEN CHOOSE v \in 0..9 : DigitChars[v + 1] = c
    ELSE IF c \in {"A", "a"} THEN 10
    ELSE IF c \in {"B", "b"} THEN 11
    ELSE IF c \in {"C", "c"} THEN 12
    ELSE IF c \in {"D", "d"} THEN 13
    ELSE IF c \in {"E", "e"} THEN 14
    ELSE 15

\* what a decoded byte outside printable ASCII stands for
Replacement == "\t"

\* FormEncodeChar that leaves "+" as it is
FormEncodeChar_PlusRaw(c) ==
    IF c \in Lower \cup Upper \cup Digit \cup {"*", "-", ".", "_", "+"} THEN <<c>>
    ELSE IF c = " " THEN <<"+">>
    ELSE <<"%", HexChars[(CharCode(c) \div 16) + 1], HexChars[(CharCode(c) % 16) + 1]>>

\* the urlencoded serializer applied to one character
FormEncodeChar(c) ==
    IF c \in Lower \cup Upper \cup Digit \cup {"*", "-", ".", "_"} THEN <<c>>
    ELSE IF c = " " THEN <<"+">>
    ELSE <<"%", HexChars[(CharCode(c) \div 16) + 1], HexChars[(CharCode(c) % 16) + 1]>>

RECURSIVE FormEncode(_)
FormEncode(s) ==
    IF s = <<>> THEN <<>> ELSE FormEncodeChar(Head(s)) \o FormEncode(Tail(s))

\* the urlencoded parser applied to one name or value: "+" is a space,
\* "%" followed by two hex digits is the byte they spell
RECURSIVE FormDecode(_)
FormDecode(s) ==
    IF s = <<>> THEN <<>>
    ELSE IF Head(s) = "+" THEN <<" ">> \o FormDecode(Tail(s))
    ELSE IF Head(s) = "%" /\ Len(s) >= 3 /\ IsHex(s[2]) /\ IsHex(s[3])
         THEN LET code == 16 * HexValue(s[2]) + HexValue(s[3])
              IN  <<IF code \in 32..126 THEN Ascii[code - 31] ELSE Replacement>>
                  \o FormDecode(SubSeq(s, 4, Len(s)))
    ELSE <<Head(s)>> \o FormDecode(Tail(s))

\* URLSearchParams.prototype.set: replace the first pair of that name and
\* drop the others, or append
ParamsSet(params, name, value) ==
    LET hits == {i \in 1..Len(params) : params[i][1] = name}
    IN  IF hits = {} THEN Append(params, <<name, value>>)
        ELSE LET first == CHOOSE i \in hits : \A j \in hits : i <= j
             IN  SelectSeq([i \in 1..Len(params) |->
                               IF i = first THEN <<name, value, TRUE>>
                               ELSE <<params[i][1], params[i][2], params[i][1] # name>>],
                           LAMBDA e : e[3])

\* URLSearchParams.prototype.toString
RECURSIVE ParamsToString(_)
ParamsToString(params) ==
    IF params = <<>> THEN <<>>
    ELSE LET p == Head(params)
             one == FormEncode(p[1]) \o <<"=">> \o FormEncode(p[2])
         IN  IF Len(params) = 1 THEN one
             ELSE one \o <<"&">> \o ParamsToString(Tail(params))

\* the pieces of s between occurrences of the separator
RECURSIVE Split(_, _)
Split(s, sep) ==
    LET at == {i \in 1..Len(s) : s[i] = sep}
    IN  IF at = {} THEN <<s>>
        ELSE LET i == CHOOSE k \in at : \A j \in at : k <= j
             IN  <<SubSeq(s, 1, i - 1)>> \o Split(SubSeq(s, i + 1, Len(s)), sep)

\* one name=value piece of a query string
ParsePair(piece) ==
    LET at == {i \in 1..Len(piece) : piece[i] = "="}
    IN  IF at = {} THEN <<FormDecode(piece), <<>> >>
        ELSE LET i == CHOOSE k \in at : \A j \in at : k <= j
             IN  <<FormDecode(SubSeq(piece, 1, i - 1)),
                   FormDecode(SubSeq(piece, i + 1, Len(piece)))>>

\* new URLSearchParams(string): one leading "?" is dropped, empty pieces
\* are skipped
ParamsParse(s) ==
    LET body == IF s # <<>> /\ Head(s) = "?" THEN Tail(s) ELSE s
        pieces == SelectSeq(Split(body, "&"), LAMBDA x : x # <<>>)
    IN  [i \in 1..Len(pieces) |-> ParsePair(pieces[i])]

\* URLSearchParams.prototype.get: <<>> for null, else <<first value>>
ParamsGet(params, name) ==
    LET hits == {i \in 1..Len(params) : params[i][1] = name}
    IN  IF hits = {} THEN <<>>
        ELSE <<params[CHOOSE i \in hits : \A j \in hits : i <= j][2]>>

\* value of a run of decimal digits
RECURSIVE DigitsValue(_)
DigitsValue(ds) ==
    IF ds = <<>> THEN 0
    ELSE 10 * DigitsValue(SubSeq(ds, 1, Len(ds) - 1)) + HexValue(ds[Len(ds)])

\* parseInt(s, 10): leading whitespace and one sign are skipped, the
\* leading digits are read, NaN when there is none
ParseInt(s) ==
    LET ws == {i \in 1..Len(s) : ~IsWhitespace(s[i])}
        t == IF ws = {} THEN <<>>
             ELSE SubSeq(s, CHOOSE i \in ws : \A j \in ws : i <= j, Len(s))
        neg == t # <<>> /\ Head(t) = "-"
        u == IF t # <<>> /\ Head(t) \in {"-", "+"} THEN Tail(t) ELSE t
        nonDigit == {i \in 1..Len(u) : u[i] \notin Digit}
        ds == IF nonDigit = {} THEN u
              ELSE SubSeq(u, 1, (CHOOSE i \in nonDigit : \A j \in nonDigit : i <= j) - 1)
    IN  IF ds = <<>> THEN NaN
        ELSE Num(IF neg THEN 0 - DigitsValue(ds) ELSE DigitsValue(ds))

\* Number.prototype.toString for the numbers of the model
NumToString(x) ==
    IF x.nan THEN <<"N","a","N">>
    ELSE (IF x.int < 0 THEN <<"-">> \o NatToString(0 - x.int) ELSE NatToString(x.int))
         \o (IF x.frac = 0 THEN <<>> ELSE <<".">> \o NatToString(x.frac))

\* a number in a condition: 0 and NaN are falsy
Truthy(x) == ~x.nan /\ ~(x.int = 0 /\ x.frac = 0)

\* String.prototype.replace('#', ''): the first "#" is removed
RemoveFirstHash(s) ==
    LET at == {i \in 1..Len(s) : s[i] = "#"}
    IN  IF at = {} THEN s
        ELSE LET i == CHOOSE k \in at : \A j \in at : k <= j
             IN  SubSeq(s, 1, i - 1) \o SubSeq(s, i + 1, Len(s))

----------------------------------------------------------------------------
(* encodeUrlState / decodeUrlState                                         *)

EncodeUrlState(st) ==
    LET p0 == <<>>
        p1 == IF st.event # <<>> THEN ParamsSet(p0, <<"q">>, st.event) ELSE p0
        p2 == IF st.perspective # <<>> /\ st.perspective # Balanced
              THEN ParamsSet(p1, <<"p">>, st.perspective) ELSE p1
        p3 == IF Truthy(st.detailLevel) /\ st.detailLevel # Num(5)
              THEN ParamsSet(p2, <<"d">>, NumToString(st.detailLevel)) ELSE p2
        p4 == IF st.verify THEN ParamsSet(p3, <<"v">>, <<"1">>) ELSE p3
    IN  ParamsToString(p4)

\* x || fallback for a string-or-null x
OrElse(opt, fallback) == IF opt = <<>> \/ opt[1] = <<>> THEN fallback ELSE opt[1]

DecodeUrlState(hash) ==
    LET params == ParamsParse(RemoveFirstHash(hash))
    IN  [event |-> OrElse(ParamsGet(params, <<"q">>), <<>>),
         perspective |-> OrElse(ParamsGet(params, <<"p">>), Balanced),
         detailLevel |-> ParseInt(OrElse(ParamsGet(params, <<"d">>), <<"5">>)),
         verify |-> ParamsGet(params, <<"v">>) = << <<"1">> >>]

----------------------------------------------------------------------------
(* Candidate responses.                                                    *)

GoodUrl  == <<"h","t","t","p","s",":","/","/","a",".","b","/","c">>
MailUrl  == <<"m","a","i","l","t","o",":","a">>
\* texts the URL constructor rejects without a base
MalformedUrls ==
    { <<"/","a","/","b">>,
      <<"n","o"," ","u","r","l">>,
      <<>>,
      <<"h","t","t","p",":","/","/">>,
      <<"a",".","b","/","c">> }

StepId(i) == <<"c">> \o NatToString(i)

\* a conformant step, the i-th of its list
GoodStep(i) ==
    [id |-> Str(StepId(i)),
     title |-> Str(<<"T">> \o NatToString(i)),
     summary |-> Str(<<"S">> \o NatToString(i)),
     when |-> Str(<<"2","0","2","4">>),
     mechanism |-> Str(<<"m">>),
     evidence_needed |-> Null,
     sources |-> Arr(<< [title |-> Str(<<"s">>), url |-> Str(GoodUrl)],
                        [title |-> Str(<<"t">>), url |-> Str(MailUrl)] >>),
     depends_on |-> Arr(<<Str(StepId(i + 1))>>)]

WithUrl(step, u) ==
    [step EXCEPT !.sources = Arr(<< step.sources.a[1], [title |-> Str(<<"t">>), url |-> u] >>)]

\* variants of a step that still conform to the schema
ConformantVariants(step) ==
    { step,
      [step EXCEPT !.sources = UndefArr],
      [step EXCEPT !.depends_on = UndefArr],
      [step EXCEPT !.evidence_needed = Undef],
      [step EXCEPT !.evidence_needed = Str(<<"e">>)] }

\* variants of a step with one source whose url is malformed
BadUrlVariants(step) == {WithUrl(step, Str(u)) : u \in MalformedUrls}

\* variants of a step that break the schema in another way
OtherBadVariants(step) ==
    { WithUrl(step, Number(Num(1))),
      [step EXCEPT !.title = Undef],
      [step EXCEPT !.summary = Null],
      [step EXCEPT !.id = Number(Num(1))],
      [step EXCEPT !.sources = NullArr],
      [step EXCEPT !.evidence_needed = Number(Num(1))] }

GoodSteps(n) == [i \in 1..n |-> GoodStep(i)]

\* lists of n steps, each a conformant variant of the plain good step
ConformantStepLists(n) ==
    {GoodSteps(n)} \cup
    UNION {{[GoodSteps(n) EXCEPT ![k] = v] : v \in ConformantVariants(GoodStep(k))} : k \in 1..n}

StepVariants(step) ==
    ConformantVariants(step) \cup BadUrlVariants(step) \cup OtherBadVariants(step)

\* lists of n steps of which at most one deviates from the plain good step
StepLists(n) ==
    {GoodSteps(n)} \cup
    UNION {{[GoodSteps(n) EXCEPT ![k] = v] : v \in StepVariants(GoodStep(k))} : k \in 1..n}

ResponseWith(steps) ==
    [event |-> Str(<<"e","v","e","n","t">>),
     generated_at |-> Str(<<"2","0","2","5">>),
     perspective |-> Str(Balanced),
     steps |-> steps]

ResponseInputs ==
    {ResponseWith(Arr(l)) : l \in UNION {StepLists(n) : n \in 0..MaxSteps}}
    \cup {ResponseWith(UndefArr), ResponseWith(NullArr),
          [ResponseWith(Arr(GoodSteps(StepsMin))) EXCEPT !.event = Undef],
          [ResponseWith(Arr(GoodSteps(StepsMin))) EXCEPT !.generated_at = Number(Num(0))],
          [ResponseWith(Arr(GoodSteps(StepsMin))) EXCEPT !.perspective = Null]}

----------------------------------------------------------------------------
(* Applying the schemas: a candidate object is given, the schema is        *)
(* applied to it once.                                                     *)

NoRequest == [event |-> Undef, detailLevel |-> Undef, perspective |-> Undef]
NoResponse == ResponseWith(UndefArr)
DefaultUrlState ==
    [event |-> <<>>, perspective |-> Balanced, detailLevel |-> Num(5), verify |-> FALSE]

\* the QueryState the App starts with and resets to
InitialState ==
    [event |-> <<>>, perspective |-> Balanced, detailLevel |-> Num(5),
     verify |-> FALSE, loading |-> FALSE, error |-> <<>>, result |-> <<>>,
     currentHistoryFileId |-> <<>>]

RequestIdle == requestInput = NoRequest /\ requestParsed = <<>>
ResponseIdle == responseInput = NoResponse /\ responseParsed = <<>>
CodecIdle ==
    /\ urlState = DefaultUrlState
    /\ hashInput = <<>>
    /\ encoded = <<>>
    /\ decoded = <<>>
    /\ roundTrip = <<>>

\* the App is not part of the schema and codec specifications
AppIdle ==
    /\ useLocalApi = TRUE
    /\ user = <<>>
    /\ authLoading = TRUE
    /\ authModalOpen = FALSE
    /\ showLandingPage = TRUE
    /\ pendingPrompt = <<>>
    /\ state = DefaultUrlState
    /\ keyClosure = <<>>
    /\ generateCalls = <<>>
    /\ saveCalls = <<>>
    /\ toast = <<>>
    /\ dispatched = 0
    /\ lastReply = <<>>
    /\ loadingMoreEvents = FALSE
    /\ moreCalls = <<>>
    /\ updateCalls = <<>>
    /\ lastCall = <<>>

\* the history store is empty and not used
StoreIdle ==
    /\ files = {}
    /\ clock = 0
    /\ nextFileId = 1

HistoryIdle ==
    /\ updating = <<>>
    /\ listed = <<>>
    /\ history = <<>>
    /\ lastDeleted = <<>>

\* the merge is not part of the other specifications
MergeIdle ==
    /\ moreInput = <<>>
    /\ moreOutput = <<>>

RequestInit ==
    /\ requestInput \in RequestInputs
    /\ requestParsed = <<>>
    /\ ResponseIdle
    /\ CodecIdle
    /\ AppIdle
    /\ MergeIdle
    /\ StoreIdle
    /\ HistoryIdle

ValidateRequest ==
    /\ requestParsed = <<>>
    /\ requestParsed' = <<ParseRequest(requestInput)>>
    /\ UNCHANGED <<requestInput, responseVars, codecVars, appVars, mergeVars, storeVars, historyVars>>

RequestNext == ValidateRequest

RequestSpec == RequestInit /\ [][RequestNext]_vars

ResponseInit ==
    /\ responseInput \in ResponseInputs
    /\ responseParsed = <<>>
    /\ RequestIdle
    /\ CodecIdle
    /\ AppIdle
    /\ MergeIdle
    /\ StoreIdle
    /\ HistoryIdle

ValidateResponse ==
    /\ responseParsed = <<>>
    /\ responseParsed' = <<ParseResponse(responseInput)>>
    /\ UNCHANGED <<responseInput, requestVars, codecVars, appVars, mergeVars, storeVars, historyVars>>

ResponseNext == ValidateResponse

ResponseSpec == ResponseInit /\ [][ResponseNext]_vars

----------------------------------------------------------------------------
(* The codec applied: the query state is encoded, the fragment of the     *)
(* page is decoded (and loaded into the query state on mount), and the     *)
(* fragment written from the encoded state is decoded again.               *)

EventTexts ==
    { <<>>,
      <<"a">>,
      <<" ">>,
      <<"a"," ","b">>,
      <<"a","+","b">>,
      <<"a","&","d","=","3">>,
      <<"#","x","#">>,
      <<"5","0","%">>,
      <<"%","4","1">>,
      <<"?","q","=","\"">> }

DetailLevels == {Num(n) : n \in 1..MaxLevel}

UrlStateInputs ==
    [event : EventTexts, perspective : Perspectives,
     detailLevel : DetailLevels, verify : BOOLEAN]

\* fragments of links a user may open
HashInputs ==
    { <<>>,
      <<"#">>,
      <<"#","q","=","h","i">>,
      <<"#","q","=","h","i","&","d","=","a","b","c">>,
      <<"#","q","=","h","i","&","d","=">>,
      <<"#","q","=","h","i","&","d","=","3","a","b","c">>,
      <<"#","q","=","h","i","&","d","=","0">>,
      <<"#","q","=","h","i","&","d","=","-","2">>,
      <<"#","q","=","h","i","&","d","=","2",".","7">>,
      <<"#","q","=","h","i","&","d","=","+","4">>,
      <<"#","d","=","1","2">>,
      <<"#","q","=","h","i","&","p","=","e","c","o","n","o","m","i","c","&","v","=","1">>,
      <<"#","p","=","&","v","=","0">>,
      <<"?","q","=","a">>,
      <<"q","=","a","#","b">>,
      <<"#","q","=","a","&","q","=","b","&","&">>,
      <<"#","q","=","%","4","1","%","z","z","+","%","2">> }

CodecInit ==
    /\ urlState \in UrlStateInputs
    /\ hashInput \in HashInputs
    /\ encoded = <<>>
    /\ decoded = <<>>
    /\ roundTrip = <<>>
    /\ RequestIdle
    /\ ResponseIdle
    /\ AppIdle
    /\ MergeIdle
    /\ StoreIdle
    /\ HistoryIdle

\* encodeUrlState applied to the query state
Encode ==
    /\ encoded = <<>>
    /\ encoded' = <<EncodeUrlState(urlState)>>
    /\ UNCHANGED <<urlState, hashInput, decoded, roundTrip, requestVars, responseVars, appVars, mergeVars, storeVars, historyVars>>

\* decodeUrlState applied to the fragment
Decode ==
    /\ decoded = <<>>
    /\ decoded' = <<DecodeUrlState(hashInput)>>
    /\ UNCHANGED <<urlState, hashInput, encoded, roundTrip, requestVars, responseVars, appVars, mergeVars, storeVars, historyVars>>

\* the mount effect: the fragment is decoded and, when it carries an
\* event, its four fields replace the query state
LoadFromHash ==
    /\ decoded = <<>>
    /\ LET u == DecodeUrlState(hashInput)
       IN  /\ u.event # <<>>
           /\ decoded' = <<u>>
           /\ urlState' = u
    /\ encoded' = <<>>
    /\ roundTrip' = <<>>
    /\ UNCHANGED <<hashInput, requestVars, responseVars, appVars, mergeVars, storeVars, historyVars>>

\* the fragment "#" + encoded, as the URL effect writes it, is decoded
DecodeEncoded ==
    /\ encoded # <<>>
    /\ roundTrip = <<>>
    /\ roundTrip' = <<DecodeUrlState(<<"#">> \o encoded[1])>>
    /\ UNCHANGED <<urlState, hashInput, encoded, decoded, requestVars, responseVars, appVars, mergeVars, storeVars, historyVars>>

CodecNext == Encode \/ Decode \/ LoadFromHash \/ DecodeEncoded

CodecSpec == CodecInit /\ [][CodecNext]_vars

----------------------------------------------------------------------------
(* generateCausalChain                                                     *)

GenericFailure == "Failed to generate causal chain"
RateLimited == "Rate limit exceeded. Please try again later."
InvalidRequest == "Invalid request. Please check your input."

\* an endpoint reply: the transport failed, or a status and a body; the
\* body is JSON (an error object with an optional detail, or a candidate
\* response) or plain text
Reply(netError, status, json, text, detail, data) ==
    [netError |-> netError, status |-> status, json |-> json, text |-> text,
     detail |-> detail, data |-> data]

\* the message of the ApiError built from a failure reply
ErrorMessage(reply) ==
    IF reply.json
    THEN (IF reply.detail # <<>> /\ reply.detail[1] # "" THEN reply.detail[1] ELSE GenericFailure)
    ELSE (IF reply.text # "" THEN reply.text ELSE GenericFailure)

Thrown(apiError, status, message) ==
    [ok |-> FALSE, value |-> <<>>, apiError |-> apiError, status |-> status, message |-> message]
Returned(value) ==
    [ok |-> TRUE, value |-> <<value>>, apiError |-> FALSE, status |-> 200, message |-> ""]

\* the local branch: fetch, response.ok, response.json, schema
GenerateLocal(reply) ==
    IF reply.netError THEN Thrown(FALSE, 0, "Failed to fetch")
    ELSE IF reply.status \notin 200..299 THEN Thrown(TRUE, reply.status, ErrorMessage(reply))
    ELSE IF ~reply.json THEN Thrown(FALSE, 0, "Unexpected token")
    ELSE LET parsed == ParseResponse(reply.data)
         IN  IF parsed.success THEN Returned(parsed.data[1])
             ELSE Thrown(FALSE, 0, "ZodError")

\* the platform branch: createExecution, responseStatusCode, JSON.parse,
\* schema; whatever is thrown that is not an ApiError becomes ApiError(500)
GeneratePlatform(reply) ==
    IF reply.netError THEN Thrown(TRUE, 500, "Failed to fetch")
    ELSE IF reply.status # 200 THEN Thrown(TRUE, reply.status, ErrorMessage(reply))
    ELSE IF ~reply.json THEN Thrown(TRUE, 500, "Unexpected token")
    ELSE LET parsed == ParseResponse(reply.data)
         IN  IF parsed.success THEN Returned(parsed.data[1])
             ELSE Thrown(TRUE, 500, "ZodError")

\* GenerateCausalChain that hands the body on without applying the schema
GenerateCausalChain_NoSchema(local, reply) ==
    IF reply.netError \/ reply.status # 200 \/ ~reply.json
    THEN (IF local THEN GenerateLocal(reply) ELSE GeneratePlatform(reply))
    ELSE Returned([event |-> reply.data.event.s,
                   generated_at |-> reply.data.generated_at.s,
                   perspective |-> reply.data.perspective.s,
                   steps |-> [i \in 1..Len(reply.data.steps.a) |-> TypedStep(reply.data.steps.a[i])]])

GenerateCausalChain(local, reply) ==
    IF local THEN GenerateLocal(reply) ELSE GeneratePlatform(reply)

----------------------------------------------------------------------------
(* handleRequestMoreEvents: the request it builds and the merge.           *)

\* number of leading characters of a new summary that are compared
SummaryPrefix == 50
\* floor of the detail level of a request for more history
MoreDetailFloor == 3

MoreSuffix ==
    <<" ","(","e","x","p","a","n","d"," ","h","i","s","t","o","r","i","c","a","l",
      " ","c","o","n","t","e","x","t",")">>

\* String.prototype.toLowerCase on the modelled alphabet
LowerChar(c) == IF c \in Upper THEN Ascii[CharCode(c) - 31 + 32] ELSE c
ToLowerCase(s) == [i \in 1..Len(s) |-> LowerChar(s[i])]

\* s.substring(0, n)
Substring0(s, n) == SubSeq(s, 1, IF n < Len(s) THEN n ELSE Len(s))

\* s.includes(t)
Includes(s, t) ==
    \E i \in 0..(Len(s) - Len(t)) : SubSeq(s, i + 1, i + Len(t)) = t

\* x - 1 and Math.max(k, x) on the modelled numbers (NaN stays NaN)
NumMinusOne(x) == IF x.nan THEN NaN ELSE [x EXCEPT !.int = @ - 1]
MathMax(k, x) == IF x.nan THEN NaN ELSE IF NumGE(x, k) THEN x ELSE Num(k)

\* MoreRequest without the floor on the detail level
MoreRequest_NoFloor(st) ==
    LET steps == st.result[1].steps
        oldestStep == steps[Len(steps)]
    IN  [event |-> oldestStep.summary \o MoreSuffix,
         perspective |-> st.perspective,
         detailLevel |-> NumMinusOne(st.detailLevel)]

\* the GenerateRequest of handleRequestMoreEvents, from the state of the
\* closure it runs in
MoreRequest(st) ==
    LET steps == st.result[1].steps
        oldestStep == steps[Len(steps)]
    IN  [event |-> oldestStep.summary \o MoreSuffix,
         perspective |-> st.perspective,
         detailLevel |-> MathMax(MoreDetailFloor, NumMinusOne(st.detailLevel))]

\* IsDuplicate that compares titles only
IsDuplicate_TitleOnly(existingSteps, newStep) ==
    \E k \in 1..Len(existingSteps) :
        ToLowerCase(existingSteps[k].title) = ToLowerCase(newStep.title)

\* the predicate of the filter: some existing step has the new step's
\* lower-cased summary prefix in its summary, or the same lower-cased title
IsDuplicate(existingSteps, newStep) ==
    \E k \in 1..Len(existingSteps) :
        \/ Includes(ToLowerCase(existingSteps[k].summary),
                    Substring0(ToLowerCase(newStep.summary), SummaryPrefix))
        \/ ToLowerCase(existingSteps[k].title) = ToLowerCase(newStep.title)

\* result.steps.filter(...)
NewSteps(existingSteps, fetchedSteps) ==
    SelectSeq(fetchedSteps, LAMBDA newStep : ~IsDuplicate(existingSteps, newStep))

\* UpdatedResult with the new steps in front of the existing ones
UpdatedResult_Prepend(result, newSteps) ==
    [result EXCEPT !.steps = newSteps \o @]

\* { ...state.result, steps: [...state.result.steps, ...newSteps] }
UpdatedResult(result, newSteps) ==
    [result EXCEPT !.steps = @ \o newSteps]

----------------------------------------------------------------------------
(* The merge applied: a query state with a result and a list of fetched   *)
(* steps are given; the request is built and the fetched steps filtered.  *)

MergeStep(i, title, summary) ==
    [TypedStep(GoodStep(i)) EXCEPT !.title = title, !.summary = summary]

\* fifty characters, of mixed case
Long50 == Repeat("a", 24) \o <<"B">> \o Repeat("c", 24) \o <<"D">>

ExistingA == MergeStep(1, <<"T","1">>, <<"S","1">>)
ExistingB == MergeStep(2, <<"T","r","e","a","t","y">>, <<"I","n"," ">> \o Long50 \o <<"!","!">>)
ExistingC == MergeStep(3, <<"T","3">>, <<"S","3">>)

ExistingLists == { <<ExistingA, ExistingB, ExistingC>>, <<ExistingC, ExistingA, ExistingB>> }

\* fetched steps, by their relation to the existing ones
FetchedSteps ==
    { \* same title up to case
      MergeStep(4, <<"t","R","E","A","T","Y">>, <<"n","e","w"," ","4">>),
      \* first fifty characters of the summary occur, up to case; the rest differs
      MergeStep(5, <<"N","5">>, Repeat("A", 24) \o <<"b">> \o Repeat("C", 24) \o <<"d","z","z">>),
      \* the fiftieth character of the summary differs
      MergeStep(6, <<"N","6">>, Repeat("a", 24) \o <<"B">> \o Repeat("c", 24) \o <<"e">>),
      \* a short summary that equals an existing one up to case
      MergeStep(7, <<"N","7">>, <<"s","1">>),
      \* a one-character summary that occurs inside an existing one
      MergeStep(8, <<"N","8">>, <<"3">>),
      \* the title is a proper prefix of an existing title, the summary is new
      MergeStep(9, <<"T">>, <<"n","e","w"," ","9">>),
      \* the summary contains an existing summary, and is not contained in one
      MergeStep(10, <<"N","1","0">>, <<"S","1"," ","a","n","d"," ","m","o","r","e">>),
      \* an empty summary
      MergeStep(11, <<"N","1","1">>, <<>>),
      \* nothing in common
      MergeStep(12, <<"N","1","2">>, <<"n","e","w"," ","1","2">>),
      \* nothing in common with an existing step; the title of the step above
      \* in another case
      MergeStep(13, <<"n","1","2">>, <<"o","t","h","e","r"," ","1","3">>) }

\* longest list of fetched steps handed to the merge
MaxFetched == 2

RECURSIVE SeqsUpTo(_, _)
SeqsUpTo(S, n) ==
    IF n = 0 THEN {<<>>}
    ELSE LET shorter == SeqsUpTo(S, n - 1)
         IN  shorter \cup {Append(q, x) : q \in {r \in shorter : Len(r) = n - 1}, x \in S}

FetchedLists == SeqsUpTo(FetchedSteps, MaxFetched) \ {<<>>}

MoreResultWith(steps) ==
    [event |-> <<"e","v","e","n","t">>, generated_at |-> <<"2","0","2","5">>,
     perspective |-> Balanced, steps |-> steps]

MoreInputs ==
    { [state |-> [InitialState EXCEPT !.event = <<"e","v","e","n","t">>,
                                      !.perspective = p,
                                      !.detailLevel = d,
                                      !.result = <<MoreResultWith(e)>>],
       fetched |-> f] :
        p \in {Balanced, <<"s","o","c","i","a","l">>},
        d \in DetailLevels \cup {Half(2), Half(6)},
        e \in ExistingLists,
        f \in FetchedLists }

NoMoreOutput == [request |-> <<>>, newSteps |-> <<>>]

MergeInit ==
    /\ moreInput \in {<<i>> : i \in MoreInputs}
    /\ moreOutput = <<NoMoreOutput>>
    /\ RequestIdle
    /\ ResponseIdle
    /\ CodecIdle
    /\ AppIdle
    /\ StoreIdle
    /\ HistoryIdle

\* handleRequestMoreEvents builds the request
BuildMoreRequest ==
    /\ moreOutput[1].request = <<>>
    /\ moreOutput' = <<[moreOutput[1] EXCEPT !.request = <<MoreRequest(moreInput[1].state)>>]>>
    /\ UNCHANGED <<moreInput, requestVars, responseVars, codecVars, appVars, storeVars, historyVars>>

\* handleRequestMoreEvents filters the fetched steps
FilterNewSteps ==
    /\ moreOutput[1].newSteps = <<>>
    /\ moreOutput' = <<[moreOutput[1] EXCEPT !.newSteps =
                          <<NewSteps(moreInput[1].state.result[1].steps, moreInput[1].fetched)>>]>>
    /\ UNCHANGED <<moreInput, requestVars, responseVars, codecVars, appVars, storeVars, historyVars>>

MergeNext == BuildMoreRequest \/ FilterNewSteps

MergeSpec == MergeInit /\ [][MergeNext]_vars

----------------------------------------------------------------------------
(* HistoryService and the storage bucket.                                  *)
(* A stored file has the identifier and the creation time the bucket gave  *)
(* it, its name, the users allowed to read it, and its JSON content.       *)

JsonSuffix == <<".","j","s","o","n">>

\* generateFileName: `${userId}_${timestamp}_${randomId}.json`
GenerateFileName(userId, timestamp, randomId) ==
    userId \o <<"_">> \o NatToString(timestamp) \o <<"_">> \o randomId \o JsonSuffix

\* String.prototype.startsWith
StartsWith(s, prefix) ==
    Len(prefix) <= Len(s) /\ SubSeq(s, 1, Len(prefix)) = prefix

\* the HistoryFileData written by saveHistory
HistoryFileData(userId, request, result, createdAt) ==
    [userId |-> userId, event |-> request.event, perspective |-> request.perspective,
     detailLevel |-> request.detailLevel, result |-> result, createdAt |-> createdAt]

\* storage.createFile: the file as the bucket stores it at time now
CreateFile(bucket, fileId, name, userId, data, now) ==
    bucket \cup {[id |-> fileId, name |-> name, createdAt |-> now,
                  readers |-> {userId}, data |-> data]}

\* storage.deleteFile
DeleteFile(bucket, fileId) == {f \in bucket : f.id # fileId}

\* storage.listFiles for the signed-in user: the files the user may read
ListFiles(bucket, session) == {f \in bucket : session \in f.readers}

\* saveHistory: the bucket afterwards
SaveHistory(bucket, fileId, userId, request, result, now) ==
    CreateFile(bucket, fileId, GenerateFileName(userId, now, <<"r">> \o NatToString(fileId)),
               userId, HistoryFileData(userId, request, result, now), now)

\* the HistoryItem saveHistory returns, and getUserHistory builds from a file
HistoryItem(fileId, data) ==
    [id |-> fileId, createdAt |-> data.createdAt, userId |-> data.userId,
     event |-> data.event, perspective |-> data.perspective,
     detailLevel |-> data.detailLevel, result |-> data.result]

\* Array.prototype.sort by file creation time, newest first
RECURSIVE SortNewestFirst(_)
SortNewestFirst(fs) ==
    IF fs = {} THEN <<>>
    ELSE LET newest == CHOOSE f \in fs : \A g \in fs : g.createdAt <= f.createdAt
         IN  <<newest>> \o SortNewestFirst(fs \ {newest})

\* Array.prototype.slice(0, limit)
Slice0(seq, limit) ==
    LET end == IF limit < 0
               THEN (IF Len(seq) + limit > 0 THEN Len(seq) + limit ELSE 0)
               ELSE (IF limit < Len(seq) THEN limit ELSE Len(seq))
    IN  SubSeq(seq, 1, end)

\* getUserHistory: the files of the user by name, newest first by the
\* bucket's creation time, the first limit of them, each downloaded; files
\* whose download fails are skipped
GetUserHistory(bucket, userId, limit, unreadable) ==
    LET userFiles == {f \in ListFiles(bucket, userId) : StartsWith(f.name, userId \o <<"_">>)}
        sorted == SortNewestFirst(userFiles)
        readable == SelectSeq(Slice0(sorted, limit), LAMBDA f : f.id \notin unreadable)
    IN  [i \in 1..Len(readable) |-> HistoryItem(readable[i].id, readable[i].data)]

\* UpdatedData that stamps the content as new
UpdatedData_Fresh(existingData, updatedResult) ==
    [existingData EXCEPT !.result = updatedResult, !.createdAt = 0]

\* updateHistory found the file: the content it is going to write
UpdatedData(existingData, updatedResult) ==
    [existingData EXCEPT !.result = updatedResult]

----------------------------------------------------------------------------
(* The history store used on its own: files are saved, updated, deleted   *)
(* and listed by two users.                                                *)

\* most files ever created in the bucket
MaxFiles == 2
\* last tick of the clock
MaxClock == 3

HistoryUsers == { <<"u","1">>, <<"u","2">> }

HistoryRequest ==
    [event |-> <<"e","v","e","n","t">>, perspective |-> Balanced, detailLevel |-> Num(5)]

HistoryResult == MoreResultWith(<<ExistingA, ExistingB, ExistingC>>)

\* the step a merge adds to a stored result
AddedStep == MergeStep(12, <<"N","1","2">>, <<"n","e","w"," ","1","2">>)

\* limits handed to getUserHistory
Limits == {1, 2, 10}

HistoryInit ==
    /\ files = {}
    /\ clock = 0
    /\ nextFileId = 1
    /\ updating = <<>>
    /\ listed = <<>>
    /\ history = <<>>
    /\ lastDeleted = <<>>
    /\ RequestIdle
    /\ ResponseIdle
    /\ CodecIdle
    /\ AppIdle
    /\ MergeIdle

\* saveHistory by a signed-in user
HistSave ==
    /\ nextFileId <= MaxFiles
    /\ clock < MaxClock
    /\ \E u \in HistoryUsers :
          files' = SaveHistory(files, nextFileId, u, HistoryRequest, HistoryResult, clock + 1)
    /\ clock' = clock + 1
    /\ nextFileId' = nextFileId + 1
    /\ UNCHANGED <<updating, listed, history, lastDeleted, requestVars, responseVars, codecVars, appVars, mergeVars>>

\* updateHistory up to the download: the file is found in the listing and
\* its content read
HistUpdateBegin ==
    /\ updating = <<>>
    /\ \E u \in HistoryUsers :
          \E existingFile \in ListFiles(files, u) :
              updating' = <<[fileId |-> existingFile.id, userId |-> u,
                             name |-> existingFile.name,
                             before |-> existingFile,
                             data |-> UpdatedData(existingFile.data,
                                         UpdatedResult(existingFile.data.result, <<AddedStep>>)),
                             phase |-> "fetched"]>>
    /\ UNCHANGED <<files, clock, nextFileId, listed, history, lastDeleted, requestVars, responseVars, codecVars,
                   appVars, mergeVars>>

\* updateHistory: storage.deleteFile
HistUpdateDelete ==
    /\ updating # <<>>
    /\ updating[1].phase = "fetched"
    /\ IF \E f \in files : f.id = updating[1].fileId
       THEN /\ files' = DeleteFile(files, updating[1].fileId)
            /\ updating' = <<[updating[1] EXCEPT !.phase = "deleted"]>>
       ELSE /\ files' = files
            /\ updating' = <<>>
    /\ UNCHANGED <<clock, nextFileId, listed, history, lastDeleted, requestVars, responseVars, codecVars,
                   appVars, mergeVars>>

\* updateHistory: storage.createFile under the same identifier and name
HistUpdateCreate ==
    /\ updating # <<>>
    /\ updating[1].phase = "deleted"
    /\ clock < MaxClock
    /\ files' = CreateFile(files, updating[1].fileId, updating[1].name,
                           updating[1].userId, updating[1].data, clock + 1)
    /\ clock' = clock + 1
    /\ updating' = <<>>
    /\ UNCHANGED <<nextFileId, listed, history, lastDeleted, requestVars, responseVars, codecVars, appVars, mergeVars>>

\* updateHistory: a storage call fails and the error is thrown on
HistUpdateFail ==
    /\ updating # <<>>
    /\ updating' = <<>>
    /\ UNCHANGED <<files, clock, nextFileId, listed, history, lastDeleted, requestVars, responseVars, codecVars,
                   appVars, mergeVars>>

\* deleteHistoryItem by a user who may read the file
HistDelete ==
    /\ \E u \in HistoryUsers :
          \E f \in ListFiles(files, u) : files' = DeleteFile(files, f.id)
    /\ UNCHANGED <<clock, nextFileId, updating, listed, history, lastDeleted, requestVars, responseVars, codecVars,
                   appVars, mergeVars>>

\* getUserHistory(userId, limit); at most one download fails
HistList ==
    /\ \E u \in HistoryUsers, limit \in Limits :
          \E unreadable \in {{}} \cup {{f.id} : f \in files} :
              listed' = <<[userId |-> u, limit |-> limit, unreadable |-> unreadable,
                           bucket |-> files,
                           items |-> GetUserHistory(files, u, limit, unreadable)]>>
    /\ UNCHANGED <<files, clock, nextFileId, updating, history, lastDeleted, requestVars, responseVars, codecVars,
                   appVars, mergeVars>>

\* the user the history dropdown is rendered for
DropdownUser == <<"u","1">>

\* storage.deleteFile as the signed-in user sees it: done, or the
\* identifier is not among the user's files and the call throws
DeleteFound(bucket, session, itemId) == \E f \in ListFiles(bucket, session) : f.id = itemId

\* the dropdown is opened: loadHistory runs when the list is empty
OpenDropdown ==
    /\ history = <<>>
    /\ history' = GetUserHistory(files, DropdownUser, 10, {})
    /\ lastDeleted' = <<>>
    /\ UNCHANGED <<files, clock, nextFileId, updating, listed, requestVars, responseVars,
                   codecVars, appVars, mergeVars>>

\* handleDeleteItem for the k-th item of the list
HandleDeleteItem(k) ==
    /\ IF DeleteFound(files, DropdownUser, history[k].id)
       THEN /\ files' = DeleteFile(files, history[k].id)
            /\ history' = SelectSeq(history, LAMBDA item : item.id # history[k].id)
       ELSE /\ files' = files
            /\ history' = history
    /\ lastDeleted' = <<history[k].id>>

\* the delete button of an item of the dropdown
DeleteItemClicked ==
    /\ \E k \in 1..Len(history) : HandleDeleteItem(k)
    /\ UNCHANGED <<clock, nextFileId, updating, listed, requestVars, responseVars,
                   codecVars, appVars, mergeVars>>

HistoryNext ==
    \/ HistSave
    \/ HistUpdateBegin
    \/ HistUpdateDelete
    \/ HistUpdateCreate
    \/ HistUpdateFail
    \/ HistDelete
    \/ HistList
    \/ OpenDropdown
    \/ DeleteItemClicked

HistorySpec == HistoryInit /\ [][HistoryNext]_vars

----------------------------------------------------------------------------
(* Endpoint replies.                                                       *)

ResponseA == ResponseWith(Arr(GoodSteps(StepsMin)))
\* too few steps
ResponseShort == ResponseWith(Arr(GoodSteps(StepsMin - 1)))
\* the last step has a source with a relative url
ResponseBadUrl ==
    ResponseWith(Arr([GoodSteps(StepsMin) EXCEPT
                        ![StepsMin] = WithUrl(GoodStep(StepsMin), Str(<<"/","a","/","b">>))]))

\* status 200 with a body that violates the response schema
ViolatingReplies ==
    { Reply(FALSE, 200, TRUE, "", <<>>, ResponseShort),
      Reply(FALSE, 200, TRUE, "", <<>>, ResponseBadUrl) }

\* a response whose first step repeats the title of ResponseA's first step
\* in another case, and whose other steps are new to it
ResponseMore ==
    ResponseWith(Arr(<< [GoodStep(4) EXCEPT !.title = Str(<<"t","1">>)],
                        GoodStep(5), GoodStep(6) >>))

SuccessReplies ==
    { Reply(FALSE, 200, TRUE, "", <<>>, ResponseA),
      Reply(FALSE, 200, TRUE, "", <<>>, ResponseMore) }

FailureReplies ==
    { Reply(TRUE, 0, FALSE, "", <<>>, NoResponse),
      Reply(FALSE, 200, FALSE, "<html>", <<>>, NoResponse),
      Reply(FALSE, 429, TRUE, "", <<"Too many requests">>, NoResponse),
      Reply(FALSE, 400, TRUE, "", <<"Event is too short">>, NoResponse),
      Reply(FALSE, 500, TRUE, "", <<"Model overloaded">>, NoResponse),
      Reply(FALSE, 502, FALSE, "Bad Gateway", <<>>, NoResponse),
      Reply(FALSE, 503, FALSE, "", <<>>, NoResponse) }

Replies == SuccessReplies \cup ViolatingReplies \cup FailureReplies

----------------------------------------------------------------------------
(* App: state and handlers.                                                *)

Users == { <<"u","1">> }

\* the analysis of an earlier session
OldSteps ==
    << [ExistingB EXCEPT !.id = StepId(1)],
       MergeStep(2, <<"t","2">>, <<"z","z">>),
       MergeStep(3, <<"O","3">>, <<"o","l","d">>) >>
OldResult ==
    [event |-> <<"o","l","d"," ","e","v","e","n","t">>, generated_at |-> <<"2","0","2","4">>,
     perspective |-> <<"s","o","c","i","a","l">>, steps |-> OldSteps]
OldRequest ==
    [event |-> <<"o","l","d"," ","e","v","e","n","t">>,
     perspective |-> <<"s","o","c","i","a","l">>, detailLevel |-> Num(4)]

\* texts the user types into the prompt
TypedEvents ==
    { <<"a","b","c">>,
      <<" "," ">>,
      <<" ","h","e","l","l","o"," ">> }

Toast(kind, text, n) == [kind |-> kind, text |-> text, n |-> n]
NoToast == Toast("none", "", 0)

\* the React state of App and AuthProvider as one value; a handler starts
\* with no toast of its own on screen
Cur ==
    [user |-> user, authLoading |-> authLoading, authModalOpen |-> authModalOpen,
     showLandingPage |-> showLandingPage, pendingPrompt |-> pendingPrompt,
     state |-> state, generateCalls |-> generateCalls, saveCalls |-> saveCalls,
     toast |-> NoToast, dispatched |-> dispatched,
     loadingMoreEvents |-> loadingMoreEvents, moreCalls |-> moreCalls,
     updateCalls |-> updateCalls,
     files |-> files, clock |-> clock, nextFileId |-> nextFileId]

\* handleGenerate up to its first await, run with the state and user of
\* the closure it was called from
HandleGenerate(a, stateToUse, u) ==
    IF u = <<>>
    THEN [a EXCEPT !.pendingPrompt = <<stateToUse>>,
                   !.toast = Toast("error", "Please sign in to generate causal chains", 0),
                   !.authModalOpen = TRUE]
    ELSE IF Trim(stateToUse.event) = <<>>
    THEN [a EXCEPT !.toast = Toast("error", "Please enter an event to analyze", 0)]
    ELSE [a EXCEPT !.showLandingPage = FALSE,
                   !.state = [a.state EXCEPT !.loading = TRUE, !.error = <<>>],
                   !.dispatched = a.dispatched + 1,
                   !.generateCalls =
                       Append(a.generateCalls,
                              [request |-> [event |-> Trim(stateToUse.event),
                                            perspective |-> stateToUse.perspective,
                                            detailLevel |-> stateToUse.detailLevel],
                               user |-> u[1], overlapped |-> FALSE])]

\* the effect that replays the pending prompt once a user is signed in
PendingPromptEffect(a) ==
    IF a.user # <<>> /\ a.pendingPrompt # <<>> /\ ~a.authLoading
    THEN HandleGenerate([a EXCEPT !.state = a.pendingPrompt[1], !.pendingPrompt = <<>>],
                        a.pendingPrompt[1], a.user)
    ELSE a

\* the effect that shows the landing page when there is nothing to show
LandingPageEffect(a) ==
    IF a.state.result = <<>> /\ ~a.state.loading /\ ~a.showLandingPage
    THEN [a EXCEPT !.showLandingPage = TRUE]
    ELSE a

Effects(a) == LandingPageEffect(PendingPromptEffect(a))

KeyDeps(st) == <<st.event, st.loading, st.result>>

\* the render commits: effects run, and the keydown handler is registered
\* again when one of its dependencies changed
Commit(a0) ==
    LET a == Effects(a0)
    IN  /\ a.dispatched <= MaxDispatch
        /\ dispatched' = a.dispatched
        /\ user' = a.user
        /\ authLoading' = a.authLoading
        /\ authModalOpen' = a.authModalOpen
        /\ showLandingPage' = a.showLandingPage
        /\ pendingPrompt' = a.pendingPrompt
        /\ state' = a.state
        /\ generateCalls' = a.generateCalls
        /\ saveCalls' = a.saveCalls
        /\ toast' = a.toast
        /\ loadingMoreEvents' = a.loadingMoreEvents
        /\ moreCalls' = a.moreCalls
        /\ updateCalls' = a.updateCalls
        /\ files' = a.files
        /\ clock' = a.clock
        /\ nextFileId' = a.nextFileId
        /\ keyClosure' = IF KeyDeps(a.state) # KeyDeps(state)
                          THEN [state |-> a.state, user |-> a.user]
                          ELSE keyClosure
        /\ UNCHANGED <<useLocalApi, requestVars, responseVars, codecVars, mergeVars, historyVars>>

\* the prompt input is on screen and enabled
PromptLoading == IF showLandingPage THEN state.loading \/ authLoading ELSE state.loading
PromptShown == (showLandingPage \/ (~authLoading /\ state.result = <<>>)) /\ ~PromptLoading

\* AuthProvider.checkAuth settles
CheckAuth ==
    /\ authLoading
    /\ \E u \in {<<>>} \cup {<<x>> : x \in Users} :
          Commit([Cur EXCEPT !.user = u, !.authLoading = FALSE])
    /\ lastReply' = <<>>
    /\ lastCall' = <<>>

\* AuthModal.handleSubmit succeeds: login, toast, onClose
Login ==
    /\ authModalOpen
    /\ \E u \in Users :
          Commit([Cur EXCEPT !.user = <<u>>, !.authModalOpen = FALSE,
                             !.toast = Toast("success", "Successfully logged in!", 0)])
    /\ lastReply' = <<>>
    /\ lastCall' = <<>>

\* Header.handleLogout
Logout ==
    /\ user # <<>>
    /\ ~authLoading
    /\ Commit([Cur EXCEPT !.user = <<>>])
    /\ lastReply' = <<>>
    /\ lastCall' = <<>>

\* Header sign-in button, and the modal's close button
ToggleAuthModal ==
    /\ \/ ~authModalOpen /\ user = <<>> /\ ~authLoading
       \/ authModalOpen
    /\ Commit([Cur EXCEPT !.authModalOpen = ~authModalOpen])
    /\ lastReply' = <<>>
    /\ lastCall' = <<>>

\* handleEventChange (typing) and handleExampleClick
HandleEventChange ==
    /\ PromptShown
    /\ \E e \in TypedEvents :
          /\ e # state.event
          /\ Commit([Cur EXCEPT !.state.event = e])
    /\ lastReply' = <<>>
    /\ lastCall' = <<>>

\* PromptBar.handleSubmit -> onGenerate -> handleGenerate()
Submit ==
    /\ PromptShown
    /\ Trim(state.event) # <<>>
    /\ Commit(HandleGenerate(Cur, state, user))
    /\ lastReply' = <<>>
    /\ lastCall' = <<>>

\* handleKeyDown, Enter
KeyEnter ==
    /\ Trim(keyClosure.state.event) # <<>>
    /\ ~keyClosure.state.loading
    /\ Commit(HandleGenerate(Cur, keyClosure.state, keyClosure.user))
    /\ lastReply' = <<>>
    /\ lastCall' = <<>>

\* handleKeyDown, Escape
KeyEscape ==
    /\ keyClosure.state.result # <<>>
    /\ Commit([Cur EXCEPT !.state.result = <<>>, !.state.event = <<>>])
    /\ lastReply' = <<>>
    /\ lastCall' = <<>>

\* handleNewEventAnalysis, from the button under the timeline
HandleNewEventAnalysis ==
    /\ ~showLandingPage
    /\ ~authLoading
    /\ state.result # <<>>
    /\ ~state.loading
    /\ Commit([Cur EXCEPT !.state = InitialState, !.showLandingPage = TRUE])
    /\ lastReply' = <<>>
    /\ lastCall' = <<>>

\* GenerateErrorMessage that shows the message of the ApiError
GenerateErrorMessage_Verbatim(r) ==
    IF r.apiError /\ r.status = 429 THEN RateLimited
    ELSE IF r.apiError /\ r.status = 400 THEN InvalidRequest
    ELSE IF r.apiError THEN r.message
    ELSE GenericFailure

\* the catch block of handleGenerate: the message for what was thrown
GenerateErrorMessage(r) ==
    IF r.apiError /\ r.status = 429 THEN RateLimited
    ELSE IF r.apiError /\ r.status = 400 THEN InvalidRequest
    ELSE GenericFailure

\* the catch block of handleRequestMoreEvents
MoreErrorMessage(r) ==
    IF r.apiError /\ r.status = 429 THEN RateLimited
    ELSE IF r.apiError /\ r.status = 400 THEN "Invalid request. Please try a different approach."
    ELSE "Failed to load more events"

RemoveAt(seq, i) == SubSeq(seq, 1, i - 1) \o SubSeq(seq, i + 1, Len(seq))

\* bookkeeping: the calls still awaiting the endpoint have seen another
\* call resolve while they were in flight
Overlapped(calls) == [k \in 1..Len(calls) |-> [calls[k] EXCEPT !.overlapped = TRUE]]

\* MoreFinally that leaves the flag as it is
MoreFinally_Skip(a) == a

\* the finally block of handleRequestMoreEvents
MoreFinally(a) == [a EXCEPT !.loadingMoreEvents = FALSE]

\* MergeBase reading the result in memory when the handler resumes
MergeBase_Current(call, a) ==
    IF a.state.result = <<>> THEN call.state.result[1] ELSE a.state.result[1]

\* the result handleRequestMoreEvents extends: state.result of the closure
\* the handler was started in
MergeBase(call, a) == call.state.result[1]

\* SaveFailed that reports the failure as the error of the analysis
SaveFailed_Fatal(a) ==
    [a EXCEPT !.state.error = <<"Failed to save to history">>, !.state.result = <<>>]

\* the catch block around saveHistory: the failure is logged only
SaveFailed(a) == a

\* handleGenerate after "await generateCausalChain": the result is stored
\* and saveHistory is called, or the failure is mapped to a message
GenerateResolve ==
    \E i \in 1..Len(generateCalls), reply \in Replies :
        LET call == generateCalls[i]
            r == GenerateCausalChain(useLocalApi, reply)
            a == [Cur EXCEPT !.generateCalls = RemoveAt(generateCalls, i),
                             !.moreCalls = Overlapped(moreCalls)]
            errorMessage == GenerateErrorMessage(r)
        IN  /\ IF r.ok
               THEN Commit([a EXCEPT !.state.result = r.value,
                                     !.state.loading = FALSE,
                                     !.saveCalls = Append(a.saveCalls,
                                         [user |-> call.user, request |-> call.request,
                                          result |-> r.value[1]])])
               ELSE Commit([a EXCEPT !.state.loading = FALSE,
                                     !.state.error = <<errorMessage>>,
                                     !.toast = Toast("error", errorMessage, 0)])
            /\ lastReply' = <<reply>>
            /\ lastCall' = <<[call |-> call, outcome |-> r]>>

\* handleGenerate after "await HistoryService.saveHistory": the file id is
\* remembered on success; the success toast is shown either way
SaveResolve ==
    \E i \in 1..Len(saveCalls), saved \in BOOLEAN :
        LET call == saveCalls[i]
            a == [Cur EXCEPT !.saveCalls = RemoveAt(saveCalls, i),
                             !.toast = Toast("success", "Generated causal steps",
                                             Len(call.result.steps))]
        IN  /\ IF saved
               THEN Commit([a EXCEPT !.state.currentHistoryFileId = <<nextFileId>>,
                                     !.files = SaveHistory(files, nextFileId, call.user,
                                                           call.request, call.result, clock + 1),
                                     !.clock = clock + 1,
                                     !.nextFileId = nextFileId + 1])
               ELSE Commit(SaveFailed(a))
            /\ lastReply' = <<>>
            /\ lastCall' = <<>>

\* the Timeline with its buttons is on screen
TimelineShown == ~showLandingPage /\ ~authLoading /\ state.result # <<>> /\ ~state.loading

\* handleRequestMoreEvents up to "await generateCausalChain", from the
\* button of the Timeline
HandleRequestMoreEvents ==
    /\ TimelineShown
    /\ ~loadingMoreEvents
    /\ IF user = <<>>
       THEN Commit([Cur EXCEPT !.toast = Toast("error", "Unable to load more events", 0)])
       ELSE Commit([Cur EXCEPT !.loadingMoreEvents = TRUE,
                               !.dispatched = dispatched + 1,
                               !.moreCalls = Append(moreCalls,
                                   [state |-> state, user |-> user[1],
                                    request |-> MoreRequest(state),
                                    overlapped |-> FALSE])])
    /\ lastReply' = <<>>
    /\ lastCall' = <<>>

\* handleRequestMoreEvents after "await generateCausalChain": the new steps
\* are filtered and appended and updateHistory is called, or nothing is
\* new, or the failure is mapped to a message
MoreResolve ==
    \E i \in 1..Len(moreCalls), reply \in Replies :
        LET call == moreCalls[i]
            r == GenerateCausalChain(useLocalApi, reply)
            a == [Cur EXCEPT !.moreCalls = RemoveAt(moreCalls, i),
                             !.generateCalls = Overlapped(generateCalls)]
            newSteps == NewSteps(call.state.result[1].steps, r.value[1].steps)
            updatedResult == UpdatedResult(MergeBase(call, a), newSteps)
            added == Toast("success", "Added more historical events", Len(newSteps))
        IN  /\ IF ~r.ok
               THEN Commit(MoreFinally([a EXCEPT !.toast = Toast("error", MoreErrorMessage(r), 0)]))
               ELSE IF Len(newSteps) = 0
               THEN Commit(MoreFinally([a EXCEPT !.toast = Toast("info",
                                         "No additional unique events found in this time period", 0)]))
               ELSE IF call.state.currentHistoryFileId = <<>>
               THEN Commit(MoreFinally([a EXCEPT !.state.result = <<updatedResult>>,
                                                 !.toast = added]))
               ELSE Commit([a EXCEPT !.state.result = <<updatedResult>>,
                                     !.updateCalls = Append(a.updateCalls,
                                         [fileId |-> call.state.currentHistoryFileId[1],
                                          user |-> call.user,
                                          updatedResult |-> updatedResult,
                                          added |-> Len(newSteps)])])
            /\ lastCall' = <<[call |-> call, outcome |-> r]>>
            /\ lastReply' = <<>>

\* how an updateHistory call ends: done, failed before the file was
\* deleted, or failed between deleting and re-creating the file
UpdateOutcomes == {"updated", "failed", "failedAfterDelete"}

\* handleRequestMoreEvents after "await HistoryService.updateHistory"
UpdateResolve ==
    \E i \in 1..Len(updateCalls), outcome \in UpdateOutcomes :
        LET call == updateCalls[i]
            found == IF user = <<>> THEN {}
                     ELSE {f \in ListFiles(files, user[1]) : f.id = call.fileId}
            a == MoreFinally([Cur EXCEPT
                                 !.updateCalls = RemoveAt(updateCalls, i),
                                 !.toast = Toast("success", "Added more historical events",
                                                 call.added)])
        IN  /\ IF found = {} \/ outcome = "failed"
               THEN Commit(a)
               ELSE LET existingFile == CHOOSE f \in found : TRUE
                    IN  IF outcome = "failedAfterDelete"
                        THEN Commit([a EXCEPT !.files = DeleteFile(files, call.fileId)])
                        ELSE Commit([a EXCEPT
                                 !.files = CreateFile(DeleteFile(files, call.fileId), call.fileId,
                                               existingFile.name, call.user,
                                               UpdatedData(existingFile.data, call.updatedResult),
                                               clock + 1),
                                 !.clock = clock + 1])
            /\ lastReply' = <<>>
            /\ lastCall' = <<>>

\* handleSelectHistory, from an item of the history dropdown
HandleSelectHistory ==
    /\ user # <<>>
    /\ ~authLoading
    /\ LET userHistory == GetUserHistory(files, user[1], 10, {})
       IN  \E k \in 1..Len(userHistory) :
              Commit([Cur EXCEPT
                  !.state = [event |-> userHistory[k].event,
                             perspective |-> userHistory[k].perspective,
                             detailLevel |-> userHistory[k].detailLevel,
                             verify |-> FALSE, loading |-> FALSE, error |-> <<>>,
                             result |-> <<userHistory[k].result>>,
                             currentHistoryFileId |-> <<userHistory[k].id>>],
                  !.showLandingPage = FALSE,
                  !.toast = Toast("success", "Loaded historical analysis", 0)])
    /\ lastReply' = <<>>
    /\ lastCall' = <<>>

AppInit ==
    /\ useLocalApi \in BOOLEAN
    /\ user = <<>>
    /\ authLoading = TRUE
    /\ authModalOpen = FALSE
    /\ showLandingPage = TRUE
    /\ pendingPrompt = <<>>
    /\ state = InitialState
    /\ keyClosure = [state |-> InitialState, user |-> <<>>]
    /\ generateCalls = <<>>
    /\ saveCalls = <<>>
    /\ toast = NoToast
    /\ dispatched = 0
    /\ lastReply = <<>>
    /\ loadingMoreEvents = FALSE
    /\ moreCalls = <<>>
    /\ updateCalls = <<>>
    /\ lastCall = <<>>

\* the bucket is empty
StoreInit ==
    /\ files = {}
    /\ clock = 0
    /\ nextFileId = 1

\* the bucket holds one analysis of an earlier session
ReturningStoreInit ==
    /\ files = SaveHistory({}, 1, <<"u","1">>, OldRequest, OldResult, 1)
    /\ clock = 1
    /\ nextFileId = 2

\* the analysis of an earlier session that has as many steps as a response
\* may have
LongSteps ==
    [i \in 1..StepsMax |->
        MergeStep(i, <<"L">> \o NatToString(i), <<"l","o","n","g"," ">> \o NatToString(i))]
LongResult == [OldResult EXCEPT !.steps = LongSteps]

\* the bucket holds that analysis
LongStoreInit ==
    /\ files = SaveHistory({}, 1, <<"u","1">>, OldRequest, LongResult, 1)
    /\ clock = 1
    /\ nextFileId = 2

Init ==
    /\ AppInit
    /\ StoreInit
    /\ RequestIdle
    /\ ResponseIdle
    /\ CodecIdle
    /\ MergeIdle
    /\ HistoryIdle

Next ==
    \/ CheckAuth
    \/ Login
    \/ Logout
    \/ ToggleAuthModal
    \/ HandleEventChange
    \/ Submit
    \/ KeyEnter
    \/ KeyEscape
    \/ HandleNewEventAnalysis
    \/ GenerateResolve
    \/ SaveResolve
    \/ HandleRequestMoreEvents
    \/ MoreResolve
    \/ UpdateResolve
    \/ HandleSelectHistory

Spec == Init /\ [][Next]_vars

\* A returning user: the bucket holds an earlier analysis, and the user
\* works from the history dropdown, the buttons and the keyboard shortcuts
\* without typing a new event.
ReturningInit ==
    /\ AppInit
    /\ ReturningStoreInit
    /\ RequestIdle
    /\ ResponseIdle
    /\ CodecIdle
    /\ MergeIdle
    /\ HistoryIdle

ReturningNext ==
    \/ CheckAuth
    \/ Login
    \/ Logout
    \/ ToggleAuthModal
    \/ KeyEnter
    \/ KeyEscape
    \/ HandleNewEventAnalysis
    \/ GenerateResolve
    \/ SaveResolve
    \/ HandleRequestMoreEvents
    \/ MoreResolve
    \/ UpdateResolve
    \/ HandleSelectHistory

ReturningSpec == ReturningInit /\ [][ReturningNext]_vars

\* The returning user staying signed in, with every call to the endpoint and
\* to the store eventually returning or failing.
LiveNext ==
    \/ CheckAuth
    \/ KeyEnter
    \/ KeyEscape
    \/ HandleNewEventAnalysis
    \/ GenerateResolve
    \/ SaveResolve
    \/ HandleRequestMoreEvents
    \/ MoreResolve
    \/ UpdateResolve
    \/ HandleSelectHistory

LiveSpec ==
    /\ ReturningInit
    /\ [][LiveNext]_vars
    /\ WF_vars(GenerateResolve)
    /\ WF_vars(SaveResolve)
    /\ WF_vars(MoreResolve)
    /\ WF_vars(UpdateResolve)

\* The same user, when the earlier analysis has the most steps a response
\* may have.
LongInit ==
    /\ AppInit
    /\ LongStoreInit
    /\ RequestIdle
    /\ ResponseIdle
    /\ CodecIdle
    /\ MergeIdle
    /\ HistoryIdle

LongSpec == LongInit /\ [][ReturningNext]_vars

----------------------------------------------------------------------------
(* Properties of the request schema (RequestSpec).                         *)

RequestDone == requestParsed # <<>>
RequestResult == requestParsed[1]

\* the request is inside the GenerationRequest bounds, optional fields
\* either absent or inside theirs
RequestInBounds(raw) ==
    /\ raw.event.t = "string"
    /\ Len(raw.event.s) >= 5
    /\ Len(raw.event.s) <= 300
    /\ \/ raw.perspective.t = "undefined"
       \/ raw.perspective.t = "string" /\ raw.perspective.s \in Perspectives
    /\ \/ raw.detailLevel.t = "undefined"
       \/ /\ raw.detailLevel.t = "number"
          /\ NumGE(raw.detailLevel.n, 1)
          /\ NumLE(raw.detailLevel.n, 7)

\* C2: a request with event length in [5,300], perspective one of the five
\* values or absent and detailLevel in [1,7] or absent validates; absent
\* perspective becomes "balanced", absent detailLevel becomes 5, and every
\* supplied field comes back unchanged.
C2_ValidRequestAccepted ==
    (RequestDone /\ RequestInBounds(requestInput)) =>
        /\ RequestResult.success
        /\ LET v == RequestResult.data[1]
           IN  /\ v.event = requestInput.event.s
               /\ v.perspective = IF requestInput.perspective.t = "undefined"
                                  THEN Balanced ELSE requestInput.perspective.s
               /\ v.detailLevel = IF requestInput.detailLevel.t = "undefined"
                                  THEN Num(5) ELSE requestInput.detailLevel.n

\* C2 witness: a five-character event with both optional fields absent
\* has been validated.
C2_Witness ==
    /\ RequestDone
    /\ requestInput.event = Str(PaddedEvent(0, EventMin, 0))
    /\ requestInput.perspective.t = "undefined"
    /\ requestInput.detailLevel.t = "undefined"
    /\ RequestResult.success

\* C3: validation fails and names the event field whenever the event is
\* absent or its length after trimming surrounding whitespace is below 5
\* or above 300.
C3_TrimmedEventRejected ==
    (/\ RequestDone
     /\ \/ requestInput.event.t = "undefined"
        \/ /\ requestInput.event.t = "string"
           /\ \/ Len(Trim(requestInput.event.s)) < 5
              \/ Len(Trim(requestInput.event.s)) > 300)
    => (~RequestResult.success /\ "event" \in RequestResult.issues)

\* C4: a present detailLevel is accepted only when it is an integer in
\* [1,7], and an absent detailLevel yields 5.
C4_DetailLevelIntegerOnly ==
    RequestDone =>
        /\ (requestInput.detailLevel.t # "undefined"
              /\ "detailLevel" \notin RequestResult.issues)
            => /\ requestInput.detailLevel.t = "number"
               /\ IsInteger(requestInput.detailLevel.n)
               /\ requestInput.detailLevel.n.int \in 1..7
        /\ (requestInput.detailLevel.t = "undefined" /\ RequestResult.success)
            => RequestResult.data[1].detailLevel = Num(5)

----------------------------------------------------------------------------
(* Properties of the response schema (ResponseSpec).                       *)

ResponseDone == responseParsed # <<>>
ResponseResult == responseParsed[1]
InputSteps == responseInput.steps.a

\* C5: a response whose steps list has 0, 1, 2 or more than 12 entries is
\* rejected and nothing of it is returned; a response with 3 to 12
\* otherwise-conformant steps is accepted with all its steps, in order.
C5_StepsLengthBounds ==
    ResponseDone =>
        /\ (responseInput.steps.t = "array" /\ (Len(InputSteps) < 3 \/ Len(InputSteps) > 12))
            => (~ResponseResult.success /\ ResponseResult.data = <<>>)
        /\ (/\ Len(InputSteps) \in 3..12
            /\ responseInput = ResponseWith(Arr(InputSteps))
            /\ InputSteps \in ConformantStepLists(Len(InputSteps)))
            => /\ ResponseResult.success
               /\ Len(ResponseResult.data[1].steps) = Len(InputSteps)
               /\ \A i \in 1..Len(InputSteps) :
                     ResponseResult.data[1].steps[i].id = InputSteps[i].id.s

\* C5 witness: a list of 13 conformant steps has been rejected.
C5_Witness ==
    /\ ResponseDone
    /\ InputSteps = GoodSteps(StepsMax + 1)
    /\ ~ResponseResult.success

\* some source of some step carries a url text the URL constructor rejects
HasMalformedUrl(raw) ==
    \E i \in 1..Len(raw.steps.a) :
        /\ raw.steps.a[i].sources.t = "array"
        /\ \E j \in 1..Len(raw.steps.a[i].sources.a) :
              /\ raw.steps.a[i].sources.a[j].url.t = "string"
              /\ raw.steps.a[i].sources.a[j].url.s \in MalformedUrls

\* C6: if any source of any step has a malformed url, validation of the
\* whole response fails and no step is returned, wherever the step is.
C6_MalformedUrlRejectsAll ==
    (ResponseDone /\ HasMalformedUrl(responseInput)) =>
        (~ResponseResult.success /\ ResponseResult.data = <<>>)

\* C6 witness: the last of twelve steps has a relative url and the
\* response has been rejected.
C6_Witness ==
    /\ ResponseDone
    /\ Len(InputSteps) = StepsMax
    /\ InputSteps[StepsMax].sources.t = "array"
    /\ Len(InputSteps[StepsMax].sources.a) >= 2
    /\ InputSteps[StepsMax].sources.a[2].url.t = "string"
    /\ InputSteps[StepsMax].sources.a[2].url.s = <<"/","a","/","b">>
    /\ \A i \in 1..(StepsMax - 1) : InputSteps[i] = GoodStep(i)
    /\ ~ResponseResult.success

----------------------------------------------------------------------------
(* Properties of the query-state codec (CodecSpec).                        *)

EncodedNames ==
    LET ps == ParamsParse(encoded[1]) IN {ps[i][1] : i \in 1..Len(ps)}

\* C8: encodeUrlState emits q iff event is non-empty, p iff perspective
\* differs from "balanced", d iff detailLevel differs from 5 and v=1 iff
\* verify is true; the all-default state encodes to the empty string.
C8_ElisionRule ==
    encoded # <<>> =>
        /\ (<<"q">> \in EncodedNames) <=> (urlState.event # <<>>)
        /\ (<<"p">> \in EncodedNames) <=> (urlState.perspective # Balanced)
        /\ (<<"d">> \in EncodedNames) <=> (urlState.detailLevel # Num(5))
        /\ (<<"v">> \in EncodedNames) <=> urlState.verify
        /\ urlState.verify => ParamsGet(ParamsParse(encoded[1]), <<"v">>) = << <<"1">> >>
        /\ urlState = DefaultUrlState => encoded[1] = <<>>

\* the fragment has a non-empty d parameter without any digit in it
DParamNotNumeric ==
    LET d == ParamsGet(ParamsParse(RemoveFirstHash(hashInput)), <<"d">>)
    IN  /\ d # <<>>
        /\ d[1] # <<>>
        /\ \A i \in 1..Len(d[1]) : d[1][i] \notin Digit

\* C9: decodeUrlState populates all four fields for every fragment and its
\* detailLevel is always an integer, 5 when the d parameter does not parse
\* to an integer.
C9_DecodeIntegerLevel ==
    decoded # <<>> =>
        /\ DOMAIN decoded[1] = {"event", "perspective", "detailLevel", "verify"}
        /\ IsInteger(decoded[1].detailLevel)
        /\ DParamNotNumeric => decoded[1].detailLevel = Num(5)

\* C10: for every state with perspective among the five values,
\* detailLevel in [1,7] and any event and verify, decoding the encoded
\* state gives the state back on all four fields.
C10_RoundTrip ==
    (/\ roundTrip # <<>>
     /\ urlState.perspective \in Perspectives
     /\ IsInteger(urlState.detailLevel)
     /\ urlState.detailLevel.int \in 1..7)
    => roundTrip[1] = urlState

\* C10 witness: a state whose event needs escaping and whose other fields
\* are all non-default has gone through encode and decode.
C10_Witness ==
    /\ roundTrip # <<>>
    /\ urlState.event = <<"a","&","d","=","3">>
    /\ urlState.perspective = <<"s","o","c","i","a","l">>
    /\ urlState.detailLevel = Num(7)
    /\ urlState.verify
    /\ roundTrip[1] = urlState

----------------------------------------------------------------------------
(* Properties of the App (Spec).                                           *)

\* C1: no generation request that violates the GenerationRequest bounds
\* (trimmed event of 5 to 300 characters, detailLevel in [1,7],
\* perspective one of the five values) is ever sent to the endpoint.
C1_NoInvalidDispatch ==
    \A i \in 1..Len(generateCalls) :
        LET request == generateCalls[i].request
        IN  /\ Len(request.event) >= 5
            /\ Len(request.event) <= 300
            /\ IsInteger(request.detailLevel)
            /\ request.detailLevel.int \in 1..7
            /\ request.perspective \in Perspectives

\* the step is the continuation of handleGenerate consuming a reply of
\* status 200 whose JSON body violates the response schema
ConsumedViolatingReply ==
    /\ lastReply' # <<>>
    /\ ~lastReply'[1].netError
    /\ lastReply'[1].status = 200
    /\ lastReply'[1].json
    /\ lastReply'[1].data \in {ResponseShort, ResponseBadUrl}

\* C7: when the endpoint answers 200 with a body that violates the
\* response schema, in either dispatch mode the generic failure message is
\* shown, loading is cleared, and the in-memory result stays what it was.
C7_SchemaViolationIsFailure ==
    [][ConsumedViolatingReply =>
          /\ state'.result = state.result
          /\ ~state'.loading
          /\ state'.error = <<"Failed to generate causal chain">>
          /\ toast' = Toast("error", "Failed to generate causal chain", 0)]_vars

\* C7 witness: in platform mode, with a result of an earlier generation on
\* screen, a reply whose last step has a malformed url has been consumed;
\* the earlier result is still there.
C7_Witness ==
    /\ ~useLocalApi
    /\ lastReply # <<>>
    /\ lastReply[1].status = 200
    /\ lastReply[1].data = ResponseBadUrl
    /\ state.result # <<>>
    /\ Len(state.result[1].steps) = 3
    /\ state.error = <<"Failed to generate causal chain">>
    /\ ~state.loading

----------------------------------------------------------------------------
(* Properties of the request-more-history merge (MergeSpec).               *)

MergeExisting == moreInput[1].state.result[1].steps
MergeFetched == moreInput[1].fetched
MergeDone == moreOutput # <<>> /\ moreOutput[1].newSteps # <<>>
MergeSurvivors == moreOutput[1].newSteps[1]

\* a fetched step is discarded: an existing title is equal up to case, or
\* the first 50 characters of its summary, lower-cased, occur in an
\* existing summary, lower-cased
Discarded(new) ==
    \E k \in 1..Len(MergeExisting) :
        \/ ToLowerCase(MergeExisting[k].title) = ToLowerCase(new.title)
        \/ Includes(ToLowerCase(MergeExisting[k].summary),
                    ToLowerCase(Substring0(new.summary, 50)))

\* C11: in the merge a fetched step is discarded if and only if an existing
\* step has a case-insensitively equal title or the lower-cased first 50
\* characters of its summary occur in an existing lower-cased summary;
\* every other fetched step survives.
C11_DedupRule ==
    MergeDone =>
        /\ \A j \in 1..Len(MergeFetched) :
              Discarded(MergeFetched[j])
                  <=> (\A k \in 1..Len(MergeSurvivors) : MergeSurvivors[k] # MergeFetched[j])
        /\ Len(MergeSurvivors) =
              Cardinality({j \in 1..Len(MergeFetched) : ~Discarded(MergeFetched[j])})

C11_Witness ==
    /\ MergeDone
    /\ Len(MergeFetched) = 2
    /\ MergeFetched[1].title = <<"N","5">>
    /\ MergeFetched[2].title = <<"N","6">>
    /\ MergeSurvivors = <<MergeFetched[2]>>

MoreRequestDone == moreOutput # <<>> /\ moreOutput[1].request # <<>>
MoreRequestBuilt == moreOutput[1].request[1]

\* C14: the request of request-more-history has as event the summary of the
\* last step followed by " (expand historical context)", the current
\* perspective, and detailLevel max(3, current - 1), which lies in [3,6]
\* for every current level in [1,7].
C14_MoreRequest ==
    MoreRequestDone =>
        LET st == moreInput[1].state
            last == MergeExisting[Len(MergeExisting)]
        IN  /\ MoreRequestBuilt.event =
                  last.summary \o <<" ","(","e","x","p","a","n","d"," ">>
                               \o <<"h","i","s","t","o","r","i","c","a","l"," ">>
                               \o <<"c","o","n","t","e","x","t",")">>
            /\ MoreRequestBuilt.perspective = st.perspective
            /\ \A d \in 1..7 :
                  st.detailLevel = Num(d) =>
                      /\ MoreRequestBuilt.detailLevel = Num(IF d - 1 > 3 THEN d - 1 ELSE 3)
                      /\ MoreRequestBuilt.detailLevel.int \in 3..6
            /\ (~st.detailLevel.nan /\ NumGE(st.detailLevel, 1) /\ NumLE(st.detailLevel, 7))
                  => (NumGE(MoreRequestBuilt.detailLevel, 3) /\ NumLE(MoreRequestBuilt.detailLevel, 6))

C14_Witness ==
    /\ MoreRequestDone
    /\ moreInput[1].state.detailLevel = Num(1)
    /\ moreInput[1].state.perspective = <<"s","o","c","i","a","l">>
    /\ MoreRequestBuilt.detailLevel = Num(3)

----------------------------------------------------------------------------
(* Properties of the history store (HistorySpec).                          *)

Listed == listed[1]
\* the stored items of the user the listing was asked for
OwnedItems == {HistoryItem(f.id, f.data) : f \in {g \in Listed.bucket : g.data.userId = Listed.userId}}
ListedItems == {Listed.items[i] : i \in 1..Len(Listed.items)}

\* C20: getUserHistory(userId, limit) returns at most limit items, all of
\* userId, newest first by creation time, and they are the limit most
\* recent items of that owner in the store (every download succeeding).
C20_GetUserHistory ==
    (listed # <<>> /\ Listed.unreadable = {}) =>
        /\ Len(Listed.items) <= Listed.limit
        /\ \A i \in 1..Len(Listed.items) : Listed.items[i].userId = Listed.userId
        /\ \A i, j \in 1..Len(Listed.items) :
              i < j => Listed.items[i].createdAt >= Listed.items[j].createdAt
        /\ ListedItems \subseteq OwnedItems
        /\ Len(Listed.items) =
              (IF Cardinality(OwnedItems) < Listed.limit
               THEN Cardinality(OwnedItems) ELSE Listed.limit)
        /\ \A x \in ListedItems, y \in OwnedItems \ ListedItems : x.createdAt >= y.createdAt

----------------------------------------------------------------------------
(* Properties of request-more-history inside the page (ReturningSpec).     *)

\* the step is the continuation of handleRequestMoreEvents after the
\* endpoint answered
MoreResolved == lastCall' # <<>> /\ lastReply' = <<>>
\* the result the handler was started on, what the endpoint returned, and
\* the returned steps that are not discarded as duplicates
TriggerResult == lastCall'[1].call.state.result[1]
FetchedNow == lastCall'[1].outcome.value[1].steps
SurvivorsNow == NewSteps(TriggerResult.steps, FetchedNow)
MoreMerged == MoreResolved /\ lastCall'[1].outcome.ok /\ Len(SurvivorsNow) > 0
MoreNothingNew == MoreResolved /\ lastCall'[1].outcome.ok /\ Len(SurvivorsNow) = 0

C13_NothingNewIsNoOp ==
    [][MoreNothingNew =>
          /\ state' = state
          /\ files' = files
          /\ updateCalls' = updateCalls
          /\ toast'.kind = "info"
          /\ ~loadingMoreEvents']_vars

\* C13 witness: request-more-history on a generated analysis was answered
\* with the same three steps; the result still has three steps, the info
\* toast is up and the button is enabled again.
C13_Witness ==
    /\ lastCall # <<>> /\ lastReply = <<>>
    /\ lastCall[1].outcome.ok
    /\ Len(NewSteps(lastCall[1].call.state.result[1].steps,
                    lastCall[1].outcome.value[1].steps)) = 0
    /\ state.result = lastCall[1].call.state.result
    /\ toast.kind = "info"
    /\ ~loadingMoreEvents

----------------------------------------------------------------------------
(* Properties of the failure path of handleGenerate (Spec).                *)

\* the step is the continuation of handleGenerate after the endpoint
\* answered, and generateCausalChain threw
GenerateFailed == lastReply' # <<>> /\ ~lastCall'[1].outcome.ok
\* the endpoint answered with an error status
EndpointError == GenerateFailed /\ ~lastReply'[1].netError /\ lastReply'[1].status # 200

\* the message the status of the reply asks for
StatusMessage(reply) ==
    IF ~reply.netError /\ reply.status = 429
    THEN "Rate limit exceeded. Please try again later."
    ELSE IF ~reply.netError /\ reply.status = 400
    THEN "Invalid request. Please check your input."
    ELSE "Failed to generate causal chain"

\* C15: when generate fails, status 429 gives exactly "Rate limit exceeded.
\* Please try again later.", status 400 gives the invalid-input message and
\* every other failure the generic message; the result held before is
\* unchanged and loading is cleared, in local and in platform mode alike.
C15_StatusMessages ==
    [][GenerateFailed =>
          /\ state'.error = <<StatusMessage(lastReply'[1])>>
          /\ toast' = Toast("error", StatusMessage(lastReply'[1]), 0)
          /\ state'.result = state.result
          /\ ~state'.loading]_vars

\* C15 witness: in platform mode, with a result on screen, a generate was
\* answered 429; the rate-limit message is the error, the result is still
\* there and loading is off.
C15_Witness ==
    /\ ~useLocalApi
    /\ lastReply # <<>>
    /\ ~lastReply[1].netError
    /\ lastReply[1].status = 429
    /\ state.error = <<"Rate limit exceeded. Please try again later.">>
    /\ state.result # <<>>
    /\ ~state.loading

\* the message the body of an error reply asks for
BodyMessage(reply) ==
    IF reply.json /\ reply.detail # <<>> /\ reply.detail[1] # "" THEN reply.detail[1]
    ELSE IF ~reply.json /\ reply.text # "" THEN reply.text
    ELSE "Failed to generate causal chain"

\* C16: for an endpoint error whose body is JSON with a non-empty detail the
\* message shown to the user is the detail text verbatim, for a body that
\* is not JSON it is the raw body text, and the generic message is shown
\* only when neither is there.
C16_DetailVerbatim ==
    [][EndpointError =>
          /\ state'.error = <<BodyMessage(lastReply'[1])>>
          /\ toast'.text = BodyMessage(lastReply'[1])]_vars

----------------------------------------------------------------------------
(* Properties of calls in flight (ReturningSpec).                          *)

\* C17: whatever the user does, at most one generate call is in flight at
\* any time, and at most one request-more-history call.
C17_OneCallInFlight ==
    /\ Len(generateCalls) <= 1
    /\ Len(moreCalls) <= 1

\* a request-more-history call resolved while the generate call that now
\* resolves was in flight, and the generate call succeeded
GenerateResolvedLast ==
    /\ lastReply' # <<>>
    /\ lastCall'[1].call.overlapped
    /\ lastCall'[1].outcome.ok
\* a generate call resolved while the request-more-history call that now
\* resolves was in flight, and steps survive
MoreResolvedLast == MoreMerged /\ lastCall'[1].call.overlapped

\* C18: when a generate call and a request-more-history call are in flight
\* together, the one that resolves last decides the in-memory result. If it
\* is the generate call, the result is the new generation response; if it
\* is the request-more-history call with surviving steps, the result is the
\* result that was current when it was triggered plus the survivors, and
\* what the generate call wrote is lost.
C18_LastResolverWins ==
    [][/\ GenerateResolvedLast => state'.result = lastCall'[1].outcome.value
       /\ MoreResolvedLast =>
             /\ state'.result # <<>>
             /\ state'.result[1].steps = TriggerResult.steps \o SurvivorsNow
             /\ state'.result[1].event = TriggerResult.event
             /\ state'.result[1].generated_at = TriggerResult.generated_at]_vars

\* C18 witness: request-more-history was triggered on the stored analysis,
\* a generate call started and succeeded while it was in flight and put its
\* three steps on screen; then the request-more-history call resolved, and
\* the result is the stored analysis plus the survivors.
C18_Witness ==
    /\ lastCall # <<>> /\ lastReply = <<>>
    /\ lastCall[1].call.overlapped
    /\ lastCall[1].outcome.ok
    /\ lastCall[1].call.state.result = <<OldResult>>
    /\ Len(saveCalls) = 1
    /\ saveCalls[1].result.event # OldResult.event
    /\ state.result # <<>>
    /\ Len(state.result[1].steps) > 3
    /\ SubSeq(state.result[1].steps, 1, 3) = OldSteps
    /\ state.result[1].event = OldResult.event

\* the mirror case: the generate call resolved last and its response is
\* the result
GenerateLastReached ==
    /\ lastCall # <<>> /\ lastReply # <<>>
    /\ lastCall[1].call.overlapped
    /\ lastCall[1].outcome.ok
    /\ state.result = lastCall[1].outcome.value

----------------------------------------------------------------------------
(* Properties of failures of the history store (ReturningSpec).            *)

\* the step is handleGenerate resuming from a saveHistory that failed: the
\* call is over and no file was created
SaveFailedStep == Len(saveCalls') < Len(saveCalls) /\ files' = files
\* the step is handleRequestMoreEvents resuming from an updateHistory that
\* failed: the call is over and the file was not re-created
UpdateFailedStep == Len(updateCalls') < Len(updateCalls) /\ clock' = clock
\* the step is handleGenerate resuming with a response
GenerateSucceeded == lastReply' # <<>> /\ lastCall'[1].outcome.ok

\* C19: a failure of the history store is not fatal. A successful generate
\* puts its response in memory and clears loading before the save starts;
\* a failing saveHistory then changes neither the result nor the error nor
\* loading and is followed by the success toast. A failing updateHistory
\* after a merge leaves the merged result and the error as they are and
\* clears the request-more-history busy flag.
C19_StoreFailureNotFatal ==
    [][/\ GenerateSucceeded =>
             /\ state'.result = lastCall'[1].outcome.value
             /\ ~state'.loading
             /\ state'.error = state.error
       /\ SaveFailedStep =>
             /\ state' = state
             /\ toast'.kind = "success"
       /\ UpdateFailedStep =>
             /\ state' = state
             /\ toast'.kind = "success"
             /\ ~loadingMoreEvents']_vars

\* C19 witness: the stored analysis was extended by request-more-history,
\* the update of its file failed after the old file was deleted; the
\* five merged steps are still in memory, no error is set and no busy flag
\* is up, while the bucket no longer holds the file.
C19_Witness ==
    /\ files = {}
    /\ updateCalls = <<>> /\ moreCalls = <<>> /\ generateCalls = <<>> /\ saveCalls = <<>>
    /\ dispatched = 1
    /\ state.result # <<>>
    /\ Len(state.result[1].steps) = 5
    /\ SubSeq(state.result[1].steps, 1, 3) = OldSteps
    /\ state.error = <<>>
    /\ ~state.loading
    /\ ~loadingMoreEvents

\* the same after a failing saveHistory: a generated result is in memory
\* without a file of its own, no error, no busy flag
SaveFailureReached ==
    /\ Cardinality(files) = 1
    /\ saveCalls = <<>> /\ generateCalls = <<>> /\ moreCalls = <<>>
    /\ dispatched = 1
    /\ state.result # <<>>
    /\ state.result[1].event # OldResult.event
    /\ state.error = <<>>
    /\ ~state.loading
    /\ toast.kind = "success"

----------------------------------------------------------------------------
(* Properties of updateHistory (HistorySpec).                              *)

\* the step is updateHistory returning: the file has been re-created
UpdateReturned ==
    /\ updating # <<>>
    /\ updating[1].phase = "deleted"
    /\ updating' = <<>>
    /\ clock' # clock
\* the files stored under the identifier being updated
UnderFileId(bucket) == {f \in bucket : f.id = updating[1].fileId}
\* the result updateHistory was handed
NewResponse == UpdatedResult(updating[1].before.data.result, <<AddedStep>>)

\* C21: after updateHistory(fileId, userId, newResponse) has returned, the
\* store holds exactly one file under fileId, with the original name, whose
\* result is newResponse and whose userId, event, perspective, detailLevel
\* and createdAt are those of the content before the update; no other file
\* is changed.
C21_UpdateInPlace ==
    [][UpdateReturned =>
          /\ Cardinality(UnderFileId(files')) = 1
          /\ \A f \in UnderFileId(files') :
                /\ f.name = updating[1].before.name
                /\ f.data.result = NewResponse
                /\ f.data.userId = updating[1].before.data.userId
                /\ f.data.event = updating[1].before.data.event
                /\ f.data.perspective = updating[1].before.data.perspective
                /\ f.data.detailLevel = updating[1].before.data.detailLevel
                /\ f.data.createdAt = updating[1].before.data.createdAt
          /\ files' \ UnderFileId(files') = files \ UnderFileId(files)]_vars

\* C21 witness: two files are stored, the first was saved at tick 1 and
\* updated later; its content has the added step and still says tick 1,
\* and the second file is as it was saved.
C21_Witness ==
    /\ updating = <<>>
    /\ Cardinality(files) = 2
    /\ \E f \in files :
          /\ f.id = 1
          /\ f.createdAt = 3
          /\ f.data.createdAt = 1
          /\ Len(f.data.result.steps) = 4
          /\ f.data.result.steps[4] = AddedStep
    /\ \E g \in files : g.id = 2 /\ g.createdAt = 2 /\ g.data.result = HistoryResult

\* the step is updateHistory throwing
UpdateThrew ==
    /\ updating # <<>>
    /\ updating' = <<>>
    /\ clock' = clock

\* C27: updateHistory is atomic with respect to failure. When it throws
\* before it deleted the file, the store is as it was; when it throws after
\* it deleted the file, a file with the previous content is still stored
\* under fileId: the item is not lost.
C27_UpdateAtomic ==
    [][UpdateThrew =>
          /\ updating[1].phase = "fetched" => files' = files
          /\ updating[1].phase = "deleted" =>
                \E f \in files' : f.id = updating[1].fileId
                                  /\ f.data = updating[1].before.data]_vars

----------------------------------------------------------------------------
(* Properties of the history dropdown (HistorySpec).                       *)

\* C22: deleting a history item whose file is already gone from the store
\* counts as done: after the delete action the item is no longer in the
\* list shown to the user, whether the store deleted the file or reported
\* a missing identifier.
C22_DeletedItemLeavesList ==
    lastDeleted # <<>> =>
        \A k \in 1..Len(history) : history[k].id # lastDeleted[1]

----------------------------------------------------------------------------
(* Properties of the responses held and stored (LongSpec, ReturningSpec).  *)

\* the responses in client state and in the history store
HeldResponses ==
    {state.result[k] : k \in 1..Len(state.result)} \cup {f.data.result : f \in files}

\* C23: every response held in client state or written to the history
\* store has between 3 and 12 steps, after any sequence of generate,
\* request-more-history merges and history selections.
C23_StepsBounded ==
    \A r \in HeldResponses : Len(r.steps) >= 3 /\ Len(r.steps) <= 12

\* the identifiers of the steps of a list are pairwise distinct
DistinctIds(steps) ==
    \A i, j \in 1..Len(steps) : i # j => steps[i].id # steps[j].id

\* C24: step identifiers are unique within the steps of every response held
\* in client state; in particular a request-more-history merge never
\* produces a list in which two steps share an identifier.
C24_StepIdsUnique ==
    \A k \in 1..Len(state.result) : DistinctIds(state.result[k].steps)

\* the stored result is what the new one extends
Extends(new, old) ==
    /\ new.event = old.event
    /\ new.generated_at = old.generated_at
    /\ Len(old.steps) <= Len(new.steps)
    /\ SubSeq(new.steps, 1, Len(old.steps)) = old.steps

\* C25: updateHistory is only called with the file id of the item that was
\* saved from, or loaded together with, the response being extended: when a
\* merge rewrites a stored file, the new content extends the analysis the
\* file held, and never replaces a different, earlier analysis.
C25_UpdateOwnFile ==
    [][\A f \in files, g \in files' :
          (f.id = g.id /\ f.data.result # g.data.result)
              => Extends(g.data.result, f.data.result)]_vars

\* C26: a reset is not undone by a late response. When a
\* request-more-history call resolves with surviving steps, the result in
\* memory is still the one the call was made for (it was not replaced by
\* "New Event Analysis" or a history selection in the meantime), and the
\* landing page is not left showing with a result in memory.
C26_ResetNotUndone ==
    [][MoreMerged =>
          /\ state.result = <<TriggerResult>>
          /\ ~(showLandingPage' /\ state'.result # <<>>)]_vars

\* the case of "New Event Analysis": the query is back at its initial
\* values and the landing page is up, and the late response has put the
\* extended old result in memory
NewAnalysisUndone ==
    /\ lastCall # <<>> /\ lastReply = <<>>
    /\ showLandingPage
    /\ state.event = <<>>
    /\ state.perspective = Balanced
    /\ state.detailLevel = Num(5)
    /\ state.result # <<>>
    /\ SubSeq(state.result[1].steps, 1, 3) = OldSteps

----------------------------------------------------------------------------
(* Busy flags (LiveSpec).                                                  *)

\* C28: busy flags always clear. With every endpoint and store call
\* eventually returning or failing, loading is eventually false after every
\* generate, and loadingMoreEvents is eventually false after every
\* request-more-history, whatever the outcome.
C28_BusyFlagsClear ==
    /\ state.loading ~> ~state.loading
    /\ loadingMoreEvents ~> ~loadingMoreEvents

\* C28 witness: a request-more-history and a generate have both been made;
\* the generate has just failed, nothing is in flight any more and both
\* flags are down.
C28_Witness ==
    /\ dispatched = 2
    /\ lastCall # <<>> /\ lastReply # <<>>
    /\ ~lastCall[1].outcome.ok
    /\ lastCall[1].call.overlapped
    /\ generateCalls = <<>> /\ moreCalls = <<>> /\ updateCalls = <<>> /\ saveCalls = <<>>
    /\ ~state.loading
    /\ ~loadingMoreEvents

----------------------------------------------------------------------------
(* The pending prompt (Spec).                                              *)

\* generate is triggered, from the prompt or by the Enter key, while nobody
\* is signed in
TriggeredSignedOut == user = <<>> /\ (Submit \/ KeyEnter)
\* a user is signed in and auth loading is over
SignedIn(u, loading) == u # <<>> /\ ~loading
\* the step makes the pending prompt effect run
SignInWithPending ==
    /\ pendingPrompt # <<>>
    /\ ~SignedIn(user, authLoading)
    /\ SignedIn(user', authLoading')
\* the request handleGenerate builds from a query state
RequestOf(st) ==
    [event |-> Trim(st.event), perspective |-> st.perspective, detailLevel |-> st.detailLevel]

\* generate triggered without a user dispatches nothing, stores the query
\* state of that moment and opens the sign-in dialog
PendingStored ==
    [][TriggeredSignedOut =>
          /\ dispatched' = dispatched
          /\ generateCalls' = generateCalls
          /\ pendingPrompt' = <<state>>
          /\ authModalOpen']_vars

\* signing in starts exactly one generation, from the pending state, and
\* clears the pending prompt
PendingReplayed ==
    [][SignInWithPending =>
          /\ dispatched' = dispatched + 1
          /\ Len(generateCalls') = Len(generateCalls) + 1
          /\ generateCalls'[Len(generateCalls')].request = RequestOf(pendingPrompt[1])
          /\ pendingPrompt' = <<>>]_vars

\* signing in with no pending prompt starts nothing
NoSecondReplay ==
    [][(pendingPrompt = <<>> /\ user = <<>> /\ user' # <<>>) =>
          /\ dispatched' = dispatched
          /\ generateCalls' = generateCalls]_vars

\* C29: when generate is triggered with nobody signed in, no generation
\* request is dispatched, the query state of that moment becomes the
\* pending prompt and the sign-in dialog opens; once a user is signed in
\* and auth loading is over, exactly one generation starts from the pending
\* state and the pending prompt is cleared, so that a later sign-in starts
\* no other.
C29_PendingPrompt ==
    /\ PendingStored
    /\ PendingReplayed
    /\ NoSecondReplay

----------------------------------------------------------------------------
(* Titles after a merge (MergeSpec).                                       *)

\* the titles of a list are pairwise distinct ignoring case
DistinctTitles(steps) ==
    \A i, j \in 1..Len(steps) :
        i # j => ToLowerCase(steps[i].title) # ToLowerCase(steps[j].title)

\* the steps of the result after the merge
MergedSteps == UpdatedResult(moreInput[1].state.result[1], MergeSurvivors).steps

\* C30: when the titles of the existing steps are pairwise distinct
\* ignoring case, so are the titles of the merged list: two fetched steps
\* that duplicate each other, and no existing step, are not both appended.
C30_MergedTitlesDistinct ==
    (MergeDone /\ DistinctTitles(MergeExisting)) => DistinctTitles(MergedSteps)

====
